---- MODULE Spec2Model ----
(***************************************************************************)
(* A model of python_zod_openapi, the compiler from an OpenAPI document    *)
(* (components.schemas and paths) to Pydantic declarations.                *)
(*                                                                         *)
(* JSON values are tagged records.  A Python dict is a sequence of         *)
(* <<key, value>> pairs with pairwise distinct keys, in insertion order,   *)
(* because the code depends on that order (declaration order of the        *)
(* schemas, order of the properties) and the fingerprint has to erase it.  *)
(***************************************************************************)
EXTENDS Integers, Sequences, FiniteSets, TLC

VARIABLES
    \* topological_sort_schemas (dependencies.py), one run of the function
    schemas,          \* the input map name -> schema, a JSON dict
    dependents,       \* name -> list of the names that reference it
    in_degree,        \* name -> number of unresolved local dependencies
    queue,            \* the FIFO queue of Kahn's algorithm
    sorted_names,     \* the result list
    tpc,              \* position in the function
    enumeration,      \* the order in which a set of names is listed
    \* SchemaRegistry (schema_dedup.py)
    fingerprint_to_name,  \* the dedup map fingerprint -> canonical name
    first_caller,         \* history: fingerprint -> name of the first caller
    last_result,          \* result of the last register_schema call
    \* PydanticSchemaRegistry (registry.py), the process-wide instance
    string_format_to_name,
    primitive_type_to_name,
    schema_ids,
    reg_outcome,          \* what the last registration call did
    \* openapi_to_pydantic_code (to_python.py), one compilation at a time
    doc,              \* the input document and options of the compilation
    cpc,              \* position in the function
    todo,             \* names / routes still to be processed in this phase
    out,              \* the declarations emitted so far, in output order
    declarations,     \* the declarations of _generate_route_schemas so far
    name_to_canonical,\* schema_name_to_canonical of _generate_route_schemas
    routes,           \* the parsed routes of the compilation
    seen,             \* history: the result of an earlier compilation, kept to compare
    \* one call of a function that only computes (to_python.py, routes.py)
    called,           \* the function called and its arguments, registry included
    returned          \* what the call returned

topoVars == <<schemas, dependents, in_degree, queue, sorted_names, tpc, enumeration>>
dedupVars == <<fingerprint_to_name, first_caller, last_result>>
regVars == <<string_format_to_name, primitive_type_to_name, schema_ids, reg_outcome>>
compVars == <<doc, cpc, todo, out, declarations, name_to_canonical, routes, seen>>
callVars == <<called, returned>>
vars == <<topoVars, dedupVars, regVars, compVars, callVars>>

-----------------------------------------------------------------------------
(* JSON values *)

JNull == [t |-> "null"]
JBool(b) == [t |-> "bool", b |-> b]
JInt(n) == [t |-> "int", n |-> n]
JStr(s) == [t |-> "str", s |-> s]
JList(items) == [t |-> "list", items |-> items]
JDict(kv) == [t |-> "dict", kv |-> kv]

IsDict(v) == v.t = "dict"
IsList(v) == v.t = "list"
IsStr(v) == v.t = "str"
IsInt(v) == v.t = "int"
IsTrue(v) == v.t = "bool" /\ v.b
IsFalse(v) == v.t = "bool" /\ ~v.b
StrIs(v, s) == v.t = "str" /\ v.s = s

Keys(d) == [i \in 1..Len(d.kv) |-> d.kv[i][1]]
KeySet(d) == {d.kv[i][1] : i \in 1..Len(d.kv)}
Values(d) == [i \in 1..Len(d.kv) |-> d.kv[i][2]]
HasKey(d, k) == \E i \in 1..Len(d.kv) : d.kv[i][1] = k

\* dict.get(k): the value under k, None when the key is absent
Get(d, k) ==
    IF HasKey(d, k)
    THEN d.kv[CHOOSE i \in 1..Len(d.kv) : d.kv[i][1] = k][2]
    ELSE JNull

\* d[k] = v: overwrite in place, or append a new key at the end
Put(d, k, v) ==
    IF HasKey(d, k)
    THEN JDict([i \in 1..Len(d.kv) |-> IF d.kv[i][1] = k THEN <<k, v>> ELSE d.kv[i]])
    ELSE JDict(Append(d.kv, <<k, v>>))

\* Python truthiness of a JSON value
Truthy(v) ==
    CASE v.t = "null" -> FALSE
      [] v.t = "bool" -> v.b
      [] v.t = "int" -> v.n # 0
      [] v.t = "str" -> v.s # ""
      [] v.t = "list" -> Len(v.items) > 0
      [] v.t = "dict" -> Len(v.kv) > 0

SeqToSet(s) == {s[i] : i \in 1..Len(s)}
Contains(s, x) == \E i \in 1..Len(s) : s[i] = x
IndexOf(s, x) == CHOOSE i \in 1..Len(s) : s[i] = x /\ \A j \in 1..(i - 1) : s[j] # x
NoDup(s) == \A i, j \in 1..Len(s) : i # j => s[i] # s[j]

RECURSIVE Join(_, _)
Join(parts, sep) ==
    IF Len(parts) = 0 THEN ""
    ELSE IF Len(parts) = 1 THEN parts[1]
    ELSE parts[1] \o sep \o Join(Tail(parts), sep)

-----------------------------------------------------------------------------
(* Python text operations used by the code generator.  A string is taken
   apart into one-character strings with SubSeq. *)

LowerChars == "abcdefghijklmnopqrstuvwxyz"
UpperChars == "ABCDEFGHIJKLMNOPQRSTUVWXYZ"
DigitChars == "0123456789"

CharAt(s, i) == SubSeq(s, i, i)
Chars(s) == [i \in 1..Len(s) |-> CharAt(s, i)]
HasChar(s, c) == \E i \in 1..Len(s) : CharAt(s, i) = c
CharIndex(s, c) == CHOOSE i \in 1..Len(s) : CharAt(s, i) = c
Concat(parts) == Join(parts, "")

IsUpperChar(c) == HasChar(UpperChars, c)
IsLowerChar(c) == HasChar(LowerChars, c)
IsDigitChar(c) == HasChar(DigitChars, c)
IsAlnumChar(c) == IsUpperChar(c) \/ IsLowerChar(c) \/ IsDigitChar(c)

UpperChar(c) == IF IsLowerChar(c) THEN CharAt(UpperChars, CharIndex(LowerChars, c)) ELSE c
LowerChar(c) == IF IsUpperChar(c) THEN CharAt(LowerChars, CharIndex(UpperChars, c)) ELSE c

\* str.upper(), str.lower(), str.capitalize()
upper(s) == Concat([i \in 1..Len(s) |-> UpperChar(CharAt(s, i))])
lower(s) == Concat([i \in 1..Len(s) |-> LowerChar(CharAt(s, i))])
capitalize(s) ==
    Concat([i \in 1..Len(s) |-> IF i = 1 THEN UpperChar(CharAt(s, i)) ELSE LowerChar(CharAt(s, i))])

\* str.isupper() and str.islower(): some cased character, and none of the
\* other case
isupper(s) ==
    /\ \E i \in 1..Len(s) : IsUpperChar(CharAt(s, i))
    /\ \A i \in 1..Len(s) : ~IsLowerChar(CharAt(s, i))
islower(s) ==
    /\ \E i \in 1..Len(s) : IsLowerChar(CharAt(s, i))
    /\ \A i \in 1..Len(s) : ~IsUpperChar(CharAt(s, i))

\* The printable ASCII characters (but the double quote, the backslash and
\* the backtick, which no string of the model holds) in code point order: the order of
\* Python's string comparison
CodePointOrder ==
    " !#$%&'()*+,-./0123456789:;<=>?@ABCDEFGHIJKLMNOPQRSTUVWXYZ[]^_abcdefghijklmnopqrstuvwxyz{|}~"
CodePoint(c) == CharIndex(CodePointOrder, c)

\* a < b for Python strings
RECURSIVE StrLess(_, _)
StrLess(a, b) ==
    IF b = "" THEN FALSE
    ELSE IF a = "" THEN TRUE
    ELSE IF CharAt(a, 1) = CharAt(b, 1)
    THEN StrLess(SubSeq(a, 2, Len(a)), SubSeq(b, 2, Len(b)))
    ELSE CodePoint(CharAt(a, 1)) < CodePoint(CharAt(b, 1))

startswith(s, prefix) == Len(s) >= Len(prefix) /\ SubSeq(s, 1, Len(prefix)) = prefix
endswith(s, suffix) ==
    Len(s) >= Len(suffix) /\ SubSeq(s, Len(s) - Len(suffix) + 1, Len(s)) = suffix

\* The pieces of s between the characters that satisfy IsSep, empty pieces
\* included: str.split(sep) and re.split for a one-character separator class
RECURSIVE SplitFrom(_, _, _, _)
SplitFrom(s, IsSep(_), i, piece) ==
    IF i > Len(s) THEN <<piece>>
    ELSE IF IsSep(CharAt(s, i)) THEN <<piece>> \o SplitFrom(s, IsSep, i + 1, "")
    ELSE SplitFrom(s, IsSep, i + 1, piece \o CharAt(s, i))

Split(s, IsSep(_)) == SplitFrom(s, IsSep, 1, "")
NonEmpty(parts) == SelectSeq(parts, LAMBDA p : p # "")

\* str.strip(chars)
RECURSIVE strip(_, _)
strip(s, chars) ==
    IF Len(s) > 0 /\ HasChar(chars, CharAt(s, 1)) THEN strip(SubSeq(s, 2, Len(s)), chars)
    ELSE IF Len(s) > 0 /\ HasChar(chars, CharAt(s, Len(s))) THEN strip(SubSeq(s, 1, Len(s) - 1), chars)
    ELSE s

\* str.replace(old, new) for a one-character old
replace(s, old, new) ==
    Concat([i \in 1..Len(s) |-> IF CharAt(s, i) = old THEN new ELSE CharAt(s, i)])

PyBool(b) == IF b THEN "True" ELSE "False"

\* repr() of a value parsed from JSON; the strings of the model hold no quote
\* and no backslash, so repr puts them between single quotes unchanged
RECURSIVE PyRepr(_)
PyRepr(v) ==
    CASE v.t = "null" -> "None"
      [] v.t = "bool" -> PyBool(v.b)
      [] v.t = "int" -> ToString(v.n)
      [] v.t = "str" -> "'" \o v.s \o "'"
      [] v.t = "list" ->
            "[" \o Join([i \in 1..Len(v.items) |-> PyRepr(v.items[i])], ", ") \o "]"
      [] v.t = "dict" ->
            "{" \o Join([i \in 1..Len(v.kv) |->
                           "'" \o v.kv[i][1] \o "': " \o PyRepr(v.kv[i][2])], ", ")
                \o "}"

\* str() of such a value
PyStr(v) == IF v.t = "str" THEN v.s ELSE PyRepr(v)

\* isinstance(v, int), isinstance(v, (int, float)): bool is a subclass of int
PyIsInt(v) == v.t \in {"int", "bool"}

\* dict.get(k, default)
GetDefault(d, k, default) == IF HasKey(d, k) THEN Get(d, k) ELSE default

\* A value Python can hash: not a list and not a dict
Hashable(v) == v.t \notin {"list", "dict"}


-----------------------------------------------------------------------------
(* schema_dedup.py: the fingerprint *)

\* sorted(obj.keys()) by insertion into an ordered list
RECURSIVE SortPairs(_)
SortPairs(kv) ==
    IF Len(kv) = 0 THEN << >>
    ELSE LET rest == SortPairs(Tail(kv))
             k == Head(kv)[1]
             before == SelectSeq(rest, LAMBDA p : StrLess(p[1], k))
             after == SelectSeq(rest, LAMBDA p : ~StrLess(p[1], k))
         IN before \o <<Head(kv)>> \o after

RECURSIVE sort_object_deep(_)
sort_object_deep(obj) ==
    CASE obj.t = "list" ->
            JList([i \in 1..Len(obj.items) |-> sort_object_deep(obj.items[i])])
      [] obj.t = "dict" ->
            LET s == SortPairs(obj.kv)
            IN JDict([i \in 1..Len(s) |-> <<s[i][1], sort_object_deep(s[i][2])>>])
      [] OTHER -> obj

\* json.dumps of a value whose dicts are already in key order
RECURSIVE json_dumps(_)
json_dumps(v) ==
    CASE v.t = "null" -> "null"
      [] v.t = "bool" -> IF v.b THEN "true" ELSE "false"
      [] v.t = "int" -> ToString(v.n)
      [] v.t = "str" -> "\"" \o v.s \o "\""
      [] v.t = "list" ->
            "[" \o Join([i \in 1..Len(v.items) |-> json_dumps(v.items[i])], ", ") \o "]"
      [] v.t = "dict" ->
            "{" \o Join([i \in 1..Len(v.kv) |->
                           "\"" \o v.kv[i][1] \o "\": " \o json_dumps(v.kv[i][2])], ", ")
                \o "}"

get_schema_fingerprint(schema) == json_dumps(sort_object_deep(schema))

-----------------------------------------------------------------------------
(* schema_dedup.py: SchemaRegistry *)

\* create_schema_registry(): an empty fingerprint -> name map
create_schema_registry == << >>

\* registry.fingerprint_to_name.get(fingerprint): <<name>>, or << >> for None
RegistryGet(registry, fingerprint) ==
    IF fingerprint \in DOMAIN registry THEN <<registry[fingerprint]>> ELSE << >>

\* `if existing:` is Python truthiness: None and the empty string are both false
ExistingTruthy(existing) == Len(existing) = 1 /\ existing[1] # ""

RegistrySet(registry, fingerprint, name) ==
    [f \in DOMAIN registry \cup {fingerprint} |->
        IF f = fingerprint THEN name ELSE registry[f]]

register_schema(registry, name, schema) ==
    LET fingerprint == get_schema_fingerprint(schema)
        existing == RegistryGet(registry, fingerprint)
    IN IF ExistingTruthy(existing)
       THEN [registry |-> registry, is_new |-> FALSE, canonical_name |-> existing[1]]
       ELSE [registry |-> RegistrySet(registry, fingerprint, name),
             is_new |-> TRUE, canonical_name |-> name]

pre_register_schema(registry, name, fingerprint) ==
    RegistrySet(registry, fingerprint, name)

-----------------------------------------------------------------------------
(* dependencies.py: extract_schema_dependencies *)

RefPrefix == "#/components/schemas/"

\* The strings a "$ref" of the model is built from: head, RefPrefix, tail.
\* None of them contains RefPrefix, so ref.split(RefPrefix) is <<head, tail>>
\* for such a string and <<ref>> for any other.
RefHeads == {"", "other.json"}
RefTails == {"", "A", "B", "C", "D", "E", "Z", "%41"}

RefSplit(ref) ==
    IF \E h \in RefHeads, n \in RefTails : ref = h \o RefPrefix \o n
    THEN CHOOSE m \in RefHeads \X RefTails : ref = m[1] \o RefPrefix \o m[2]
    ELSE <<ref>>

\* urllib.parse.unquote on the tails of the model: %41 is the letter A
unquote(s) == IF s = "%41" THEN "A" ELSE s

\* The keywords traverse() descends into, besides properties,
\* additionalProperties and discriminator.mapping
TraversedKeys ==
    << "items", "oneOf", "allOf", "anyOf", "not", "if", "then", "else",
       "prefixItems", "contains", "propertyNames", "dependentSchemas" >>

UnionAll(sets) == UNION sets

\* traverse(obj): the names added to `dependencies`.  The `visited` guard on
\* id(obj) only skips an object met a second time, which adds nothing to a set;
\* a JSON value is a tree, so it never cuts a path short.
RECURSIVE traverse(_)
traverse(obj) ==
    CASE obj.t = "dict" /\ IsStr(Get(obj, "$ref")) ->
            LET match == RefSplit(Get(obj, "$ref").s)
            IN IF Len(match) = 2 /\ match[2] # "" THEN {unquote(match[2])} ELSE {}
      [] obj.t = "list" ->
            UnionAll({traverse(obj.items[i]) : i \in 1..Len(obj.items)})
      [] obj.t = "dict" ->
            LET props == Get(obj, "properties")
                additional == Get(obj, "additionalProperties")
                discriminator == Get(obj, "discriminator")
                mapping == IF IsDict(discriminator) THEN Get(discriminator, "mapping")
                           ELSE JNull
            IN  (IF IsDict(props)
                 THEN UnionAll({traverse(props.kv[i][2]) : i \in 1..Len(props.kv)})
                 ELSE {})
                \cup UnionAll({IF HasKey(obj, TraversedKeys[i])
                               THEN traverse(Get(obj, TraversedKeys[i])) ELSE {}
                               : i \in 1..Len(TraversedKeys)})
                \cup (IF IsDict(additional) THEN traverse(additional) ELSE {})
                \cup (IF IsDict(mapping)
                      THEN UnionAll({traverse(mapping.kv[i][2]) : i \in 1..Len(mapping.kv)})
                      ELSE {})
      [] OTHER -> {}

\* The set behind the returned list(dependencies)
extract_schema_dependencies(schema) == traverse(schema)

-----------------------------------------------------------------------------
(* dependencies.py: topological_sort_schemas, as a state machine *)

\* A set as a list, in the order `order` (a list without repetitions that
\* contains the set) puts its members
RECURSIVE ListOf(_, _)
ListOf(set, order) ==
    IF Len(order) = 0 THEN << >>
    ELSE (IF Head(order) \in set THEN <<Head(order)>> ELSE << >>)
         \o ListOf(set, Tail(order))

\* valid_deps of one schema: its dependencies that are keys of `schemas`
valid_deps(smap, name) ==
    extract_schema_dependencies(Get(smap, name)) \cap KeySet(smap)

\* dependents after the first loop: dependents[dep] lists, in the order of
\* schemas.items(), the names that have dep among their valid_deps
BuildDependents(smap) ==
    [dep \in KeySet(smap) |->
        SelectSeq(Keys(smap), LAMBDA name : dep \in valid_deps(smap, name))]

\* The orders in which the members of a set of names are listed here: the
\* declaration order, its reverse and its rotation by one place.  list() of a
\* set of strings follows the hashes of the strings
Rotated(names, k) == [i \in 1..Len(names) |-> names[((i + k - 1) % Len(names)) + 1]]
Reversed(names) == [i \in 1..Len(names) |-> names[Len(names) + 1 - i]]
Orders(names) ==
    IF Len(names) = 0 THEN {<< >>}
    ELSE {names, Reversed(names), Rotated(names, 1)}

\* A variant that lists the dependents of a name in the order the set lists them
DependentsAsEnumerated(smap, order) ==
    [dep \in KeySet(smap) |->
        SelectSeq(order, LAMBDA name : dep \in valid_deps(smap, name))]

\* Lines 81-82: `name` is appended to the dependents of each of its deps
RECURSIVE AppendDependent(_, _, _)
AppendDependent(table, deps, name) ==
    IF Len(deps) = 0 THEN table
    ELSE AppendDependent([table EXCEPT ![Head(deps)] = Append(@, name)], Tail(deps), name)

\* Lines 77-82 from the name on: the valid deps of each name are listed in
\* the order `order` lists the members of a set
RECURSIVE FillFrom(_, _, _, _)
FillFrom(smap, names, order, table) ==
    IF Len(names) = 0 THEN table
    ELSE FillFrom(smap, Tail(names), order,
                  AppendDependent(table, ListOf(valid_deps(smap, Head(names)), order),
                                  Head(names)))

\* Lines 74 and 77-82: dependents after the first loop
FillDependents(smap, order) ==
    FillFrom(smap, Keys(smap), order, [name \in KeySet(smap) |-> << >>])

BuildInDegree(smap) ==
    [name \in KeySet(smap) |-> Cardinality(valid_deps(smap, name))]

\* A variant that puts the names of the initial queue in reverse order
InitialQueueReversed(smap, deg) ==
    LET q == SelectSeq(Keys(smap), LAMBDA name : deg[name] = 0)
    IN [i \in 1..Len(q) |-> q[Len(q) + 1 - i]]

\* queue = [name for name, degree in in_degree.items() if degree == 0]
InitialQueue(smap, deg) == SelectSeq(Keys(smap), LAMBDA name : deg[name] = 0)

\* The inner for loop of one pop: every dependent of `current` loses one
\* in-degree, and is appended to the queue when it reaches zero
RECURSIVE Release(_, _, _)
Release(deps, deg, q) ==
    IF Len(deps) = 0 THEN [in_degree |-> deg, queue |-> q]
    ELSE LET d == Head(deps)
             deg2 == [deg EXCEPT ![d] = @ - 1]
         IN Release(Tail(deps), deg2, IF deg2[d] = 0 THEN Append(q, d) ELSE q)

\* One iteration of `while queue:`
KahnStep(st) ==
    LET current == Head(st.queue)
        rel == Release(st.dependents[current], st.in_degree, Tail(st.queue))
    IN [st EXCEPT !.sorted_names = Append(@, current),
                  !.in_degree = rel.in_degree,
                  !.queue = rel.queue]

\* Mutant: the fallback after the loop is forgotten
FallbackSkipsRest(names, sorted) == sorted

\* The fallback after the loop: the names not yet emitted, in declaration order
Fallback(names, sorted) ==
    IF Len(sorted) # Len(names)
    THEN sorted \o SelectSeq(names, LAMBDA n : ~Contains(sorted, n))
    ELSE sorted

RECURSIVE KahnRun(_)
KahnRun(st) == IF Len(st.queue) = 0 THEN st ELSE KahnRun(KahnStep(st))

\* The whole function, for the callers
topological_sort_schemas(smap) ==
    LET deg == BuildInDegree(smap)
        st == KahnRun([dependents |-> BuildDependents(smap), in_degree |-> deg,
                       queue |-> InitialQueue(smap, deg), sorted_names |-> << >>])
    IN Fallback(Keys(smap), st.sorted_names)

\* Bounds of the dependency graphs explored
MaxSchemas == 3
MaxEdges == 3

TopoNames == <<"A", "B", "C", "D", "E">>
UnknownName == "Z"

Ref(name) == JDict(<< <<"$ref", JStr(RefPrefix \o name)>> >>)
RefList(targets) ==
    LET l == ListOf(targets, TopoNames \o <<UnknownName>>)
    IN [i \in 1..Len(l) |-> Ref(l[i])]

\* A schema that references exactly `targets`, through a different keyword
\* for each name so that every branch of traverse() is taken
SchemaFor(name, targets) ==
    CASE name = "A" ->
            LET l == ListOf(targets, TopoNames \o <<UnknownName>>)
            IN JDict(<< <<"type", JStr("object")>>,
                        <<"properties", JDict([i \in 1..Len(l) |-> <<l[i], Ref(l[i])>>])>> >>)
      [] name = "B" -> JDict(<< <<"allOf", JList(RefList(targets))>> >>)
      [] name = "C" ->
            JDict(<< <<"type", JStr("array")>>,
                     <<"items", JDict(<< <<"oneOf", JList(RefList(targets))>> >>)>> >>)
      [] OTHER ->
            JDict(<< <<"type", JStr("object")>>,
                     <<"additionalProperties",
                       JDict(<< <<"anyOf", JList(RefList(targets))>> >>)>> >>)

\* The schema maps of the graphs with k names and the edge set `edges`
GraphMap(k, edges) ==
    JDict([i \in 1..k |->
            <<TopoNames[i],
              SchemaFor(TopoNames[i], {e[2] : e \in {x \in edges : x[1] = TopoNames[i]}})>>])

\* The edges a graph on the first k names may have: any name to any name, and
\* the first name to a name that is not in the map
PossibleEdges(k) ==
    ({TopoNames[i] : i \in 1..k} \X {TopoNames[i] : i \in 1..k})
        \cup (IF k > 0 THEN {<<TopoNames[1], UnknownName>>} ELSE {})

RECURSIVE EdgeSets(_, _)
EdgeSets(k, n) ==
    IF n = 0 THEN {{}}
    ELSE LET smaller == EdgeSets(k, n - 1)
         IN smaller \cup {es \cup {e} : es \in smaller, e \in PossibleEdges(k)}

TopoInputs ==
    UNION { {GraphMap(k, edges) : edges \in EdgeSets(k, MaxEdges)} : k \in 0..MaxSchemas }

IdleTopo ==
    /\ schemas = JDict(<< >>)
    /\ dependents = << >>
    /\ in_degree = << >>
    /\ queue = << >>
    /\ sorted_names = << >>
    /\ tpc = "idle"
    /\ enumeration = << >>

IdleDedup ==
    /\ fingerprint_to_name = create_schema_registry
    /\ first_caller = << >>
    /\ last_result = [is_new |-> FALSE, canonical_name |-> "", name |-> "", fingerprint |-> ""]

IdleReg ==
    /\ string_format_to_name = << >>
    /\ primitive_type_to_name = << >>
    /\ schema_ids = << >>
    /\ reg_outcome = [call |-> "none", registration |-> JNull, raised |-> "ok"]

IdleCall ==
    /\ called = [function |-> "none"]
    /\ returned = JNull

IdleComp ==
    /\ doc = JNull
    /\ cpc = "idle"
    /\ todo = << >>
    /\ out = << >>
    /\ declarations = << >>
    /\ name_to_canonical = << >>
    /\ routes = << >>
    /\ seen = << >>

InitTopo ==
    /\ schemas \in TopoInputs
    /\ dependents = << >>
    /\ in_degree = << >>
    /\ queue = << >>
    /\ sorted_names = << >>
    /\ tpc = "start"
    /\ enumeration \in Orders(Keys(schemas))
    /\ IdleDedup /\ IdleReg /\ IdleComp /\ IdleCall

\* Lines 74-87: the three tables and the initial queue
TopoBuild ==
    /\ tpc = "start"
    /\ dependents' = FillDependents(schemas, enumeration)
    /\ in_degree' = BuildInDegree(schemas)
    /\ queue' = InitialQueue(schemas, BuildInDegree(schemas))
    /\ sorted_names' = << >>
    /\ tpc' = "loop"
    /\ UNCHANGED <<schemas, enumeration, dedupVars, regVars, compVars, callVars>>

\* Lines 90-96: one iteration of the while loop
TopoPop ==
    /\ tpc = "loop"
    /\ Len(queue) > 0
    /\ LET st == KahnStep([dependents |-> dependents, in_degree |-> in_degree,
                           queue |-> queue, sorted_names |-> sorted_names])
       IN /\ in_degree' = st.in_degree
          /\ queue' = st.queue
          /\ sorted_names' = st.sorted_names
    /\ UNCHANGED <<schemas, dependents, tpc, enumeration, dedupVars, regVars, compVars, callVars>>

\* Lines 98-103: the loop is left, the fallback runs, the function returns
TopoFallback ==
    /\ tpc = "loop"
    /\ Len(queue) = 0
    /\ sorted_names' = Fallback(Keys(schemas), sorted_names)
    /\ tpc' = "done"
    /\ UNCHANGED <<schemas, dependents, in_degree, queue, enumeration, dedupVars, regVars, compVars, callVars>>

NextTopo == TopoBuild \/ TopoPop \/ TopoFallback

SpecTopo == InitTopo /\ [][NextTopo]_vars

TopoEdge(a, b) == b \in valid_deps(schemas, a)

\* The names reachable from `from` by one or more dependency edges
RECURSIVE ReachFrom(_, _)
ReachFrom(frontier, found) ==
    LET next == {b \in KeySet(schemas) : \E a \in frontier : TopoEdge(a, b)} \ found
    IN IF next = {} THEN found ELSE ReachFrom(next, found \cup next)

Reaches(a, b) == b \in ReachFrom({a}, {})

\* The edge a -> b lies within a cycle: b leads back to a
OnCycle(a, b) == a = b \/ Reaches(b, a)

Position(name) == IndexOf(sorted_names, name)

(* C2: in the returned list, for every local dependency edge A -> B that does
   not lie within a dependency cycle, B appears before A. *)
TopoValid ==
    tpc = "done" =>
        \A a, b \in KeySet(schemas) :
            (TopoEdge(a, b) /\ ~OnCycle(a, b)) => Position(b) < Position(a)

IsPermutation(list, names) ==
    /\ Len(list) = Len(names)
    /\ SeqToSet(list) = SeqToSet(names)
    /\ NoDup(list)

\* What is left to do: the setup, one pop per name not yet emitted, the fallback
TopoMeasure ==
    CASE tpc = "start" -> Len(Keys(schemas)) + 2
      [] tpc = "loop" -> Len(Keys(schemas)) + 1 - Len(sorted_names)
      [] OTHER -> 0

(* C3: topological_sort_schemas terminates on every input map, acyclic,
   cyclic, self-referencing or referencing unknown names (every step strictly
   decreases a natural number that is zero only on return), and its result is
   a permutation of the input names. *)
TopoTotal ==
    /\ [](TopoMeasure >= 0 /\ (TopoMeasure = 0 <=> tpc = "done"))
    /\ [][TopoMeasure' < TopoMeasure]_vars
    /\ [](tpc = "done" => IsPermutation(sorted_names, Keys(schemas)))

\* A finished run on a three-name map with a self-reference (a cycle), a
\* reference between two names and a reference to an unknown name
TopoTotalWitness ==
    /\ tpc = "done"
    /\ \E a \in KeySet(schemas) : TopoEdge(a, a)
    /\ \E a, b \in KeySet(schemas) : a # b /\ TopoEdge(a, b)
    /\ \E a \in KeySet(schemas) : UnknownName \in extract_schema_dependencies(Get(schemas, a))
    /\ Len(sorted_names) = 3

-----------------------------------------------------------------------------
(* schema_dedup.py: register_schema called in any order on a fresh registry *)

SString == JDict(<< <<"type", JStr("string")>> >>)
SInteger == JDict(<< <<"type", JStr("integer")>> >>)
SUser ==
    JDict(<< <<"type", JStr("object")>>,
             <<"properties", JDict(<< <<"id", SString>> >>)>>,
             <<"required", JList(<<JStr("id")>>)>> >>)
\* SUser with its keys written in another order: the same fingerprint
SUserReordered ==
    JDict(<< <<"required", JList(<<JStr("id")>>)>>,
             <<"properties", JDict(<< <<"id", SString>> >>)>>,
             <<"type", JStr("object")>> >>)

DedupNames == {"", "A", "B"}
DedupSchemas == {SString, SUser, SUserReordered}

InitDedup ==
    /\ fingerprint_to_name = create_schema_registry
    /\ first_caller = << >>
    /\ last_result = [is_new |-> FALSE, canonical_name |-> "", name |-> "", fingerprint |-> ""]
    /\ IdleTopo /\ IdleReg /\ IdleComp /\ IdleCall

\* One call register_schema(registry, name, schema)
RegisterSchema(name, schema) ==
    LET r == register_schema(fingerprint_to_name, name, schema)
        fp == get_schema_fingerprint(schema)
    IN /\ fingerprint_to_name' = r.registry
       /\ last_result' = [is_new |-> r.is_new, canonical_name |-> r.canonical_name,
                          name |-> name, fingerprint |-> fp]
       /\ first_caller' = IF fp \in DOMAIN first_caller THEN first_caller
                          ELSE RegistrySet(first_caller, fp, name)
       /\ UNCHANGED <<topoVars, regVars, compVars, callVars>>

NextDedup == \E name \in DedupNames, schema \in DedupSchemas : RegisterSchema(name, schema)

SpecDedup == InitDedup /\ [][NextDedup]_vars

(* C6: on a fresh SchemaRegistry, the first register_schema call for a
   fingerprint returns is_new = true with its own name as canonical_name, and
   every later call with the same fingerprint returns is_new = false with the
   first caller's name, leaving the fingerprint -> name map unchanged. *)
FirstCallerWins ==
    [][ LET r == last_result'
        IN IF r.fingerprint \in DOMAIN first_caller
           THEN /\ ~r.is_new
                /\ r.canonical_name = first_caller[r.fingerprint]
                /\ fingerprint_to_name' = fingerprint_to_name
           ELSE /\ r.is_new
                /\ r.canonical_name = r.name ]_vars

-----------------------------------------------------------------------------
(* registry.py: PydanticSchemaRegistry, the process-wide schema_registry *)

SUPPORTED_STRING_FORMATS ==
    << "color-hex", "date", "date-time", "email", "iso-date", "iso-date-time",
       "objectid", "uri", "url", "uuid" >>

PRIMITIVE_TYPES == {"number", "integer", "boolean"}

\* dict.get on a str -> str table: <<name>>, or << >> for None
TableGet(table, key) == IF key \in DOMAIN table THEN <<table[key]>> ELSE << >>
TableSet(table, key, name) ==
    [k \in DOMAIN table \cup {key} |-> IF k = key THEN name ELSE table[k]]

\* Mutant: the conflict test without its `existing and` guard
ConflictWithoutGuard(existing, name) == Len(existing) = 0 \/ existing[1] # name

\* `if existing and existing != name`
Conflict(existing, name) == ExistingTruthy(existing) /\ existing[1] # name

\* _register_string_format(fmt, registration) on the table `formats`
register_string_format(formats, fmt, registration) ==
    IF ~Contains(SUPPORTED_STRING_FORMATS, fmt)
    THEN [formats |-> formats, raised |-> "unsupported_format"]
    ELSE LET name == Get(registration, "schema_exported_variable_name").s
         IN IF Conflict(TableGet(formats, fmt), name)
            THEN [formats |-> formats, raised |-> "conflict"]
            ELSE [formats |-> TableSet(formats, fmt, name), raised |-> "ok"]

\* The for loop over `formats`: items that are not strings are skipped, the
\* first raise leaves the loop with the earlier items registered
RECURSIVE register_formats(_, _, _)
register_formats(formats, items, registration) ==
    IF Len(items) = 0 THEN [formats |-> formats, raised |-> "ok"]
    ELSE IF ~IsStr(Head(items))
         THEN register_formats(formats, Tail(items), registration)
         ELSE LET r == register_string_format(formats, Head(items).s, registration)
              IN IF r.raised # "ok" THEN r
                 ELSE register_formats(r.formats, Tail(items), registration)

\* Mutant: register() without its branch for number, integer and boolean
register_without_primitives(reg, schema_id, registration) ==
    [formats |-> reg.formats, primitives |-> reg.primitives, ids |-> reg.ids,
     raised |-> "unsupported_type"]

\* PydanticSchemaRegistry.register(schema, registration); reg is the registry
\* state, schema_id is id(schema).  `raised` names the ValueError, or is "ok".
register(reg, schema_id, registration) ==
    LET reg_type == Get(registration, "type")
        format_value == Get(registration, "format")
        format_values == Get(registration, "formats")
        name == Get(registration, "schema_exported_variable_name").s
        done(formats, primitives) ==
            [formats |-> formats, primitives |-> primitives,
             ids |-> TableSet(reg.ids, schema_id, registration), raised |-> "ok"]
        fail(formats, error) ==
            [formats |-> formats, primitives |-> reg.primitives, ids |-> reg.ids,
             raised |-> error]
    IN IF StrIs(reg_type, "string") /\ IsStr(format_value)
       THEN LET r == register_string_format(reg.formats, format_value.s, registration)
            IN IF r.raised = "ok" THEN done(r.formats, reg.primitives)
               ELSE fail(r.formats, r.raised)
       ELSE IF StrIs(reg_type, "string") /\ IsList(format_values)
       THEN LET r == register_formats(reg.formats, format_values.items, registration)
            IN IF r.raised = "ok" THEN done(r.formats, reg.primitives)
               ELSE fail(r.formats, r.raised)
       ELSE IF IsStr(reg_type) /\ reg_type.s \in PRIMITIVE_TYPES
       THEN IF Conflict(TableGet(reg.primitives, reg_type.s), name)
            THEN fail(reg.formats, "conflict")
            ELSE done(reg.formats, TableSet(reg.primitives, reg_type.s, name))
       ELSE fail(reg.formats, "unsupported_type")

\* PydanticSchemaRegistry.clear()
clear == [formats |-> << >>, primitives |-> << >>, ids |-> << >>]

get_schema_exported_variable_name_for_string_format(formats, format_value) ==
    IF ~Contains(SUPPORTED_STRING_FORMATS, format_value) THEN << >>
    ELSE TableGet(formats, format_value)

get_schema_exported_variable_name_for_primitive_type(primitives, type_value) ==
    TableGet(primitives, type_value)

is_registered(ids, schema_id) == schema_id \in DOMAIN ids

\* The registrations the model passes: every one carries the two keys the
\* code reads unconditionally, "type" and "schema_exported_variable_name"
Registration(type, extra, name) ==
    JDict(<< <<"schema_exported_variable_name", JStr(name)>>, <<"type", JStr(type)>> >>
          \o extra)

RegAliases == {"", "X", "Y"}

StringRegistrations ==
    {Registration("string", << <<"format", JStr("email")>> >>, n) : n \in RegAliases}
    \cup { Registration("string", << <<"format", JStr("date")>> >>, "Y"),
           Registration("string", << <<"format", JStr("bogus")>> >>, "X"),
           Registration("string", << <<"formats", JList(<<JStr("email"), JStr("date")>>)>> >>, "X"),
           Registration("string", << <<"formats", JList(<<JStr("date"), JStr("bogus")>>)>> >>, "X"),
           Registration("string", << <<"formats", JList(<<JInt(1), JStr("email")>>)>> >>, "Y"),
           Registration("string", << >>, "X") }

OtherRegistrations ==
    {Registration("number", << >>, n) : n \in RegAliases}
    \cup {Registration("object", << >>, "X")}

\* The calls explored: two schema objects, one registered for strings and
\* one for the other types
RegisterCalls ==
    ({"schema1"} \X StringRegistrations) \cup ({"schema2"} \X OtherRegistrations)

NoCall == [call |-> "none", registration |-> JNull, raised |-> "ok"]

InitReg ==
    /\ string_format_to_name = << >>
    /\ primitive_type_to_name = << >>
    /\ schema_ids = << >>
    /\ reg_outcome = NoCall
    /\ IdleTopo /\ IdleDedup /\ IdleComp /\ IdleCall

\* register_pydantic_type_to_openapi_schema(schema, registration)
Register(schema_id, registration) ==
    LET r == register([formats |-> string_format_to_name,
                       primitives |-> primitive_type_to_name, ids |-> schema_ids],
                      schema_id, registration)
    IN /\ string_format_to_name' = r.formats
       /\ primitive_type_to_name' = r.primitives
       /\ schema_ids' = r.ids
       /\ reg_outcome' = [call |-> "register", registration |-> registration,
                          raised |-> r.raised]

\* clear_pydantic_schema_registry()
Clear ==
    /\ string_format_to_name' = clear.formats
    /\ primitive_type_to_name' = clear.primitives
    /\ schema_ids' = clear.ids
    /\ reg_outcome' = [call |-> "clear", registration |-> JNull, raised |-> "ok"]

NextReg ==
    \/ \E c \in RegisterCalls :
          Register(c[1], c[2]) /\ UNCHANGED <<topoVars, dedupVars, compVars, callVars>>
    \/ Clear /\ UNCHANGED <<topoVars, dedupVars, compVars, callVars>>

SpecReg == InitReg /\ [][NextReg]_vars

\* The keys a registration asks for: its string formats, or its primitive type
RegKeys(registration) ==
    LET ty == Get(registration, "type")
        f == Get(registration, "format")
        fs == Get(registration, "formats")
    IN IF StrIs(ty, "string") /\ IsStr(f) THEN {<<"format", f.s>>}
       ELSE IF StrIs(ty, "string") /\ IsList(fs)
       THEN {<<"format", fs.items[i].s>> : i \in {j \in 1..Len(fs.items) : IsStr(fs.items[j])}}
       ELSE IF IsStr(ty) /\ ty.s \in PRIMITIVE_TYPES THEN {<<"primitive", ty.s>>}
       ELSE {}

\* The alias a key is mapped to before the call: <<alias>>, or << >>
CurrentAlias(key) ==
    IF key[1] = "format" THEN TableGet(string_format_to_name, key[2])
    ELSE TableGet(primitive_type_to_name, key[2])

RegName(registration) == Get(registration, "schema_exported_variable_name").s

\* Some key of the registration is mapped to a different alias
HasConflict(registration) ==
    \E key \in RegKeys(registration) :
        Len(CurrentAlias(key)) = 1 /\ CurrentAlias(key)[1] # RegName(registration)

\* Every key of the registration is already mapped to its alias
IsIdentical(registration) ==
    /\ RegKeys(registration) # {}
    /\ \A key \in RegKeys(registration) : CurrentAlias(key) = <<RegName(registration)>>

HasUnsupportedFormat(registration) ==
    \E key \in RegKeys(registration) :
        key[1] = "format" /\ ~Contains(SUPPORTED_STRING_FORMATS, key[2])

TypeUnrecognized(registration) ==
    ~(IsStr(Get(registration, "type"))
      /\ Get(registration, "type").s \in {"string"} \cup PRIMITIVE_TYPES)

\* type "string" with neither a `format` string nor a `formats` list
StringWithoutFormat(registration) ==
    /\ StrIs(Get(registration, "type"), "string")
    /\ ~IsStr(Get(registration, "format"))
    /\ ~IsList(Get(registration, "formats"))

(* C7: for any sequence of register and clear calls, registering a key that
   is currently mapped to a different alias fails with a conflict error, and
   re-registering a key with the identical alias succeeds and leaves the
   key -> alias tables unchanged. *)
ConflictLaw ==
    [][ reg_outcome'.call = "register" =>
          LET registration == reg_outcome'.registration
          IN /\ (HasConflict(registration) /\ ~HasUnsupportedFormat(registration))
                    => reg_outcome'.raised = "conflict"
             /\ IsIdentical(registration)
                    => /\ reg_outcome'.raised = "ok"
                       /\ string_format_to_name' = string_format_to_name
                       /\ primitive_type_to_name' = primitive_type_to_name ]_vars

(* C8 as stated: a registration call raises in exactly two situations, a
   conflict and an unrecognized type (read generously: a string registration
   without its format counts as one); every other call succeeds. *)
RaisesInTwoSituations ==
    [][ reg_outcome'.call = "register" =>
          LET registration == reg_outcome'.registration
          IN (reg_outcome'.raised # "ok")
                => \/ HasConflict(registration)
                   \/ TypeUnrecognized(registration)
                   \/ StringWithoutFormat(registration) ]_vars

(* C8 as amended: a registration call (one that carries type and
   schema_exported_variable_name) raises only in three situations: a conflict,
   an unrecognized type (which includes a string registration with neither a
   format nor a formats list), or a string format that is not supported.  A
   call with an unrecognized type or an unsupported format always raises;
   every call in none of the three situations succeeds. *)
RaisesInThreeSituations ==
    [][ reg_outcome'.call = "register" =>
          LET registration == reg_outcome'.registration
              badType == TypeUnrecognized(registration) \/ StringWithoutFormat(registration)
          IN /\ (reg_outcome'.raised # "ok")
                    => \/ HasConflict(registration)
                       \/ badType
                       \/ HasUnsupportedFormat(registration)
             /\ badType => reg_outcome'.raised = "unsupported_type"
             /\ HasUnsupportedFormat(registration) => reg_outcome'.raised # "ok"
             /\ reg_outcome'.raised = "unsupported_format"
                    => HasUnsupportedFormat(registration) ]_vars

\* A call has raised for an unsupported string format; another for a type
\* that is recognized but lacks its format
RaisesInThreeSituationsWitness ==
    /\ reg_outcome.call = "register"
    /\ reg_outcome.raised = "unsupported_format"
    /\ "email" \in DOMAIN string_format_to_name
    /\ "number" \in DOMAIN primitive_type_to_name

-----------------------------------------------------------------------------
(* type_render.py and types/*.py: rendering a schema as a type expression.
   custom is the state of the process-wide PydanticSchemaRegistry the
   converters consult: [formats, primitives]. *)

wrap_annotated(base, metadata) ==
    IF Len(metadata) = 0 THEN base
    ELSE "Annotated[" \o base \o ", " \o Join(metadata, ", ") \o "]"

\* meta is a list of <<key, value>> pairs; the code sorts the keys
format_openapi_meta(meta) ==
    "json_schema_extra={'openapi': " \o PyRepr(JDict(SortPairs(meta))) \o "}"

\* Literal[...] of an enum list
LiteralOf(enum) ==
    "Literal[" \o Join([i \in 1..Len(enum.items) |-> PyRepr(enum.items[i])], ", ") \o "]"

\* Field(...) around the arguments, or the bare base when there are none
WithField(base, field_args) ==
    IF Len(field_args) > 0
    THEN wrap_annotated(base, <<"Field(" \o Join(field_args, ", ") \o ")">>)
    ELSE base

When(cond, items) == IF cond THEN items ELSE << >>

convert_openapi_string_to_pydantic(schema, custom) ==
    LET raw == Get(schema, "format")
        hasFmt == IsStr(raw) /\ raw.s # ""
        custom_schema ==
            IF hasFmt
            THEN get_schema_exported_variable_name_for_string_format(custom.formats, raw.s)
            ELSE << >>
        fmt == IF hasFmt THEN raw.s ELSE ""
        base == IF hasFmt /\ fmt = "email" THEN "EmailStr"
                ELSE IF hasFmt /\ fmt \in {"url", "uri"} THEN "AnyUrl"
                ELSE IF hasFmt /\ fmt = "uuid" THEN "UUID"
                ELSE "str"
        min_length == Get(schema, "minLength")
        max_length == Get(schema, "maxLength")
        explicit == Get(schema, "pattern")
        pattern_is_explicit == IsStr(explicit)
        pattern == IF hasFmt /\ fmt = "color-hex" /\ ~pattern_is_explicit
                   THEN JStr("^[a-fA-F0-9]{6}$") ELSE explicit
        meta == When(hasFmt, << <<"format", JStr(fmt)>> >>)
                \o When(IsStr(pattern) /\ pattern_is_explicit, << <<"pattern", pattern>> >>)
                \o When(PyIsInt(min_length), << <<"minLength", min_length>> >>)
                \o When(PyIsInt(max_length), << <<"maxLength", max_length>> >>)
        field_args ==
            When(base = "str", <<"strict=True">>)
            \o When(PyIsInt(min_length), <<"min_length=" \o PyStr(min_length)>>)
            \o When(PyIsInt(max_length), <<"max_length=" \o PyStr(max_length)>>)
            \o When(IsStr(pattern), <<"pattern=" \o PyRepr(pattern)>>)
            \o When(Len(meta) > 0, <<format_openapi_meta(meta)>>)
    IN IF IsList(Get(schema, "enum")) THEN LiteralOf(Get(schema, "enum"))
       ELSE IF ExistingTruthy(custom_schema) THEN custom_schema[1]
       ELSE WithField(base, field_args)

\* Reached only with type "number" or "integer"
convert_openapi_number_to_pydantic(schema, custom) ==
    LET schema_type == Get(schema, "type")
        found ==
            IF IsStr(schema_type) /\ schema_type.s \in {"number", "integer", "boolean"}
            THEN get_schema_exported_variable_name_for_primitive_type(custom.primitives,
                                                                      schema_type.s)
            ELSE << >>
        base == IF StrIs(schema_type, "integer") THEN "int" ELSE "float"
        minimum == Get(schema, "minimum")
        maximum == Get(schema, "maximum")
        meta == When(PyIsInt(minimum), << <<"minimum", minimum>> >>)
                \o When(PyIsInt(maximum), << <<"maximum", maximum>> >>)
        field_args ==
            <<"strict=True">>
            \o When(PyIsInt(minimum), <<"ge=" \o PyStr(minimum)>>)
            \o When(PyIsInt(maximum), <<"le=" \o PyStr(maximum)>>)
            \o When(Len(meta) > 0, <<format_openapi_meta(meta)>>)
    IN IF IsList(Get(schema, "enum")) THEN LiteralOf(Get(schema, "enum"))
       ELSE IF ExistingTruthy(found) THEN found[1]
       ELSE WithField(base, field_args)

convert_openapi_boolean_to_pydantic(schema, custom) ==
    LET found == get_schema_exported_variable_name_for_primitive_type(custom.primitives,
                                                                      "boolean")
    IN IF ExistingTruthy(found) THEN found[1]
       ELSE wrap_annotated("bool", <<"Field(strict=True)">>)

\* The dict items of a list, in order
DictItems(list) == SelectSeq(list.items, IsDict)

\* "#/components/schemas/Name" -> Name (percent-decoded); any other ref as
\* is.  No name of the model contains RefPrefix, so split(...)[1] is all that
\* follows the prefix.
decode_ref_name(ref) ==
    IF startswith(ref, RefPrefix)
    THEN unquote(SubSeq(ref, Len(RefPrefix) + 1, Len(ref)))
    ELSE ref

\* Mutant: the wrap for every truthy `nullable`, not for True alone
WrapIfTruthy(expr, schema) ==
    IF Truthy(Get(schema, "nullable")) THEN "Optional[" \o expr \o "]" ELSE expr

wrap_nullable(expr, schema) ==
    IF IsTrue(Get(schema, "nullable")) THEN "Optional[" \o expr \o "]" ELSE expr

RECURSIVE schema_to_type_expr(_, _)
convert_openapi_array_to_pydantic(schema, custom) ==
    LET items == Get(schema, "items")
        item_type == IF IsDict(items) THEN schema_to_type_expr(items, custom) ELSE "Any"
        base == "list[" \o item_type \o "]"
        min_items == Get(schema, "minItems")
        max_items == Get(schema, "maxItems")
        meta == When(PyIsInt(min_items), << <<"minItems", min_items>> >>)
                \o When(PyIsInt(max_items), << <<"maxItems", max_items>> >>)
        field_args ==
            When(PyIsInt(min_items), <<"min_length=" \o PyStr(min_items)>>)
            \o When(PyIsInt(max_items), <<"max_length=" \o PyStr(max_items)>>)
            \o When(Len(meta) > 0, <<format_openapi_meta(meta)>>)
    IN WithField(base, field_args)

convert_openapi_object_to_pydantic(schema, custom) ==
    LET properties == Get(schema, "properties")
        additional == Get(schema, "additionalProperties")
    IN IF ~Truthy(properties) /\ ~Truthy(additional) THEN "dict[str, Any]"
       ELSE IF IsDict(additional)
       THEN "dict[str, " \o schema_to_type_expr(additional, custom) \o "]"
       ELSE "dict[str, Any]"

convert_openapi_union_to_pydantic(schema, custom) ==
    LET parts == DictItems(Get(schema, "oneOf"))
        item_types == [i \in 1..Len(parts) |-> schema_to_type_expr(parts[i], custom)]
        union_expr == IF Len(item_types) > 1
                      THEN "Union[" \o Join(item_types, ", ") \o "]"
                      ELSE item_types[1]
        discriminator == Get(schema, "discriminator")
        property_name ==
            IF IsDict(discriminator) THEN Get(discriminator, "propertyName") ELSE JNull
        named == IsStr(property_name) /\ property_name.s # ""
        field_args ==
            When(named, <<"discriminator=" \o PyRepr(property_name)>>)
            \o When(named, <<format_openapi_meta(<< <<"discriminator", discriminator>> >>)>>)
    IN IF Len(item_types) = 0 THEN "Any" ELSE WithField(union_expr, field_args)

convert_openapi_intersection_to_pydantic(schema, custom) ==
    LET items == DictItems(Get(schema, "allOf"))
        parts == [i \in 1..Len(items) |-> schema_to_type_expr(items[i], custom)]
    IN IF Len(parts) = 0 THEN "Any"
       ELSE IF Len(parts) = 1 THEN parts[1]
       ELSE "all_of(" \o Join(parts, ", ") \o ")"

\* _schema_to_type_expr, for a schema on which it does not raise
schema_to_type_expr(schema, custom) ==
    IF ~IsDict(schema) THEN "Any"
    ELSE LET ref == Get(schema, "$ref")
             schema_type == Get(schema, "type")
         IN wrap_nullable(
              IF IsStr(ref)
              THEN IF startswith(ref.s, RefPrefix) THEN decode_ref_name(ref.s) ELSE "Any"
              ELSE IF IsList(Get(schema, "oneOf"))
              THEN convert_openapi_union_to_pydantic(schema, custom)
              ELSE IF IsList(Get(schema, "allOf"))
              THEN convert_openapi_intersection_to_pydantic(schema, custom)
              ELSE IF StrIs(schema_type, "string")
              THEN convert_openapi_string_to_pydantic(schema, custom)
              ELSE IF IsStr(schema_type) /\ schema_type.s \in {"number", "integer"}
              THEN convert_openapi_number_to_pydantic(schema, custom)
              ELSE IF StrIs(schema_type, "boolean")
              THEN convert_openapi_boolean_to_pydantic(schema, custom)
              ELSE IF StrIs(schema_type, "array")
              THEN convert_openapi_array_to_pydantic(schema, custom)
              ELSE IF StrIs(schema_type, "object") \/ HasKey(schema, "properties")
              THEN convert_openapi_object_to_pydantic(schema, custom)
              ELSE IF IsList(Get(schema, "enum")) THEN LiteralOf(Get(schema, "enum"))
              ELSE "Any",
              schema)

\* _schema_to_type_expr raises TypeError: `schema_type in {"number",
\* "integer"}` hashes schema_type, and a list or a dict is unhashable.  The
\* test is reached when the schema is no reference, union, intersection or
\* string; the converters pass the error of a sub-schema up.
RECURSIVE type_expr_raises(_)
type_expr_raises(schema) ==
    IF ~IsDict(schema) THEN FALSE
    ELSE LET schema_type == Get(schema, "type")
             sub(list) == \E i \in 1..Len(list.items) :
                             IsDict(list.items[i]) /\ type_expr_raises(list.items[i])
         IN IF IsStr(Get(schema, "$ref")) THEN FALSE
            ELSE IF IsList(Get(schema, "oneOf")) THEN sub(Get(schema, "oneOf"))
            ELSE IF IsList(Get(schema, "allOf")) THEN sub(Get(schema, "allOf"))
            ELSE IF StrIs(schema_type, "string") THEN FALSE
            ELSE IF ~Hashable(schema_type) THEN TRUE
            ELSE IF StrIs(schema_type, "array")
            THEN IsDict(Get(schema, "items")) /\ type_expr_raises(Get(schema, "items"))
            ELSE IF StrIs(schema_type, "object") \/ HasKey(schema, "properties")
            THEN /\ Truthy(Get(schema, "properties")) \/ Truthy(Get(schema, "additionalProperties"))
                 /\ IsDict(Get(schema, "additionalProperties"))
                 /\ type_expr_raises(Get(schema, "additionalProperties"))
            ELSE FALSE

-----------------------------------------------------------------------------
(* to_python.py: one declaration *)

VALID_IDENTIFIER_CHARS == "_" \o LowerChars \o UpperChars \o DigitChars

\* keyword.kwlist
PythonKeywords ==
    { "False", "None", "True", "and", "as", "assert", "async", "await", "break",
      "class", "continue", "def", "del", "elif", "else", "except", "finally",
      "for", "from", "global", "if", "import", "in", "is", "lambda", "nonlocal",
      "not", "or", "pass", "raise", "return", "try", "while", "with", "yield" }

sanitize_identifier(name) ==
    LET result == Concat([i \in 1..Len(name) |->
                    IF HasChar(VALID_IDENTIFIER_CHARS, CharAt(name, i))
                    THEN CharAt(name, i) ELSE "_"])
        rest == SubSeq(result, 2, Len(result))
        decapitalized ==
            IF result # "" /\ isupper(CharAt(result, 1)) /\ islower(rest)
            THEN LowerChar(CharAt(result, 1)) \o rest
            ELSE result
        prefixed ==
            IF decapitalized = "" \/ IsDigitChar(CharAt(decapitalized, 1))
            THEN "_" \o decapitalized
            ELSE decapitalized
    IN IF prefixed \in PythonKeywords THEN prefixed \o "_" ELSE prefixed

RECURSIVE FreeIndex(_, _, _)
FreeIndex(name, used, index) ==
    IF (name \o "_" \o ToString(index)) \in used
    THEN FreeIndex(name, used, index + 1)
    ELSE index

\* _dedupe_name: the name it returns; the caller adds it to `used`
dedupe_name(name, used) ==
    IF name \notin used THEN name
    ELSE name \o "_" \o ToString(FreeIndex(name, used, 2))

\* utils.to_pascal_case: re.split on runs of non-alphanumerics, empty parts dropped
to_pascal_case(value) ==
    LET parts == NonEmpty(Split(value, LAMBDA c : ~IsAlnumChar(c)))
    IN Concat([i \in 1..Len(parts) |->
                 UpperChar(CharAt(parts[i], 1)) \o SubSeq(parts[i], 2, Len(parts[i]))])

\* set(schema.get("required", [])) raises TypeError when the value is not
\* iterable or one of its items is unhashable
RequiredRaises(required) ==
    CASE required.t = "list" -> \E i \in 1..Len(required.items) : ~Hashable(required.items[i])
      [] required.t \in {"str", "dict"} -> FALSE
      [] OTHER -> TRUE

\* The set it builds otherwise: the items of a list, the characters of a
\* string, the keys of a dict
RequiredSet(required) ==
    CASE required.t = "list" -> SeqToSet(required.items)
      [] required.t = "str" -> {JStr(CharAt(required.s, i)) : i \in 1..Len(required.s)}
      [] required.t = "dict" -> {JStr(k) : k \in KeySet(required)}

\* The attribute names of the properties, in order: each sanitized, then
\* made unique among the names before it (used_names of the code)
RECURSIVE AttrNames(_, _)
AttrNames(kv, names) ==
    IF Len(names) = Len(kv) THEN names
    ELSE AttrNames(kv, Append(names,
                              dedupe_name(sanitize_identifier(kv[Len(names) + 1][1]),
                                          SeqToSet(names))))

\* The line of one field, and whether the field needs an alias
FieldLine(prop_name, attr_name, type_expr, is_required) ==
    LET alias == attr_name # prop_name /\ prop_name # ""
        default_expr ==
            IF is_required
            THEN IF alias THEN " = Field(alias=" \o PyRepr(JStr(prop_name)) \o ")" ELSE ""
            ELSE IF alias
                 THEN " = Field(default=None, alias=" \o PyRepr(JStr(prop_name)) \o ")"
                 ELSE " = None"
    IN [line |-> "    " \o attr_name \o ": " \o type_expr \o default_expr, alias |-> alias]

\* The loop over the properties
FieldLines(kv, names, required, custom) ==
    [i \in 1..Len(kv) |->
        FieldLine(kv[i][1], names[i], schema_to_type_expr(kv[i][2], custom),
                  JStr(kv[i][1]) \in required)]

\* The lines of the class: header, model_config, then the fields or `pass`;
\* base_classes is << >> for None
ModelLines(name, base_classes, fields, forbid) ==
    LET bases == IF Len(base_classes) > 0 THEN base_classes ELSE <<"BaseModel">>
        alias_used == \E i \in 1..Len(fields) : fields[i].alias
        config_args == When(alias_used, <<"populate_by_name=True">>)
                       \o When(forbid, <<"extra='forbid'">>)
    IN <<"class " \o name \o "(" \o Join(bases, ", ") \o "):">>
       \o When(Len(config_args) > 0,
               <<"    model_config = ConfigDict(" \o Join(config_args, ", ") \o ")">>)
       \o (IF Len(fields) > 0 THEN [i \in 1..Len(fields) |-> fields[i].line]
           ELSE <<"    pass">>)

\* _generate_model_lines for a dict schema on which it does not raise
generate_model_lines(name, schema, base_classes, custom) ==
    LET properties == Get(schema, "properties")
    IN ModelLines(name, base_classes,
                  IF IsDict(properties)
                  THEN FieldLines(properties.kv, AttrNames(properties.kv, << >>),
                                  RequiredSet(GetDefault(schema, "required", JList(<< >>))),
                                  custom)
                  ELSE << >>,
                  IsFalse(Get(schema, "additionalProperties")))

model_lines_raise(schema) ==
    \/ RequiredRaises(GetDefault(schema, "required", JList(<< >>)))
    \/ /\ IsDict(Get(schema, "properties"))
       /\ \E i \in 1..Len(Get(schema, "properties").kv) :
             type_expr_raises(Get(schema, "properties").kv[i][2])

is_freeform_object(schema) ==
    /\ IsDict(schema)
    /\ StrIs(Get(schema, "type"), "object") \/ HasKey(schema, "properties")
    /\ ~Truthy(Get(schema, "properties"))
    /\ ~IsFalse(Get(schema, "additionalProperties"))

\* A variant that takes only a schema of type object for an inline object
InlineTypedObjectsOnly(schema) ==
    /\ IsDict(schema)
    /\ ~(Truthy(Get(schema, "$ref")) \/ Truthy(Get(schema, "oneOf")) \/ Truthy(Get(schema, "allOf")))
    /\ StrIs(Get(schema, "type"), "object")
    /\ ~is_freeform_object(schema)

should_inline_object_model(schema) ==
    /\ IsDict(schema)
    /\ ~(Truthy(Get(schema, "$ref")) \/ Truthy(Get(schema, "oneOf")) \/ Truthy(Get(schema, "allOf")))
    /\ StrIs(Get(schema, "type"), "object") \/ HasKey(schema, "properties")
    /\ ~is_freeform_object(schema)

\* One declaration of the output: k is "def" for the full declaration of a
\* schema and "lifted" for that of a model lifted out of one (ref is the
\* fingerprint of the schema declared), "alias" for an alias (ref is the
\* canonical name); any other k marks lines that declare nothing
Block(k, name, ref, lines) == [k |-> k, name |-> name, ref |-> ref, lines |-> lines]

\* The allOf parts _emit_schema_definition folds into one model
AllOfParts(schema) == DictItems(Get(schema, "allOf"))
IsRefPart(part) == IsStr(Get(part, "$ref"))
IsObjectPart(part) ==
    ~IsRefPart(part) /\ (StrIs(Get(part, "type"), "object") \/ HasKey(part, "properties"))

\* dict.update over the `properties` of the object parts, in order
RECURSIVE MergeProperties(_, _)
MergeProperties(parts, acc) ==
    IF Len(parts) = 0 THEN acc
    ELSE LET props == Get(Head(parts), "properties")
             RECURSIVE upd(_, _)
             upd(kv, d) == IF Len(kv) = 0 THEN d
                           ELSE upd(Tail(kv), Put(d, Head(kv)[1], Head(kv)[2]))
         IN MergeProperties(Tail(parts),
                            IF IsObjectPart(Head(parts)) /\ IsDict(props)
                            THEN upd(props.kv, acc) ELSE acc)

\* The `required` items of the object parts, each once, in order
RECURSIVE MergeRequired(_, _)
MergeRequired(parts, acc) ==
    IF Len(parts) = 0 THEN acc
    ELSE LET required == Get(Head(parts), "required")
             RECURSIVE add(_, _)
             add(items, list) ==
                IF Len(items) = 0 THEN list
                ELSE add(Tail(items),
                         IF Contains(list, Head(items)) THEN list ELSE Append(list, Head(items)))
         IN MergeRequired(Tail(parts),
                          IF IsObjectPart(Head(parts)) /\ IsList(required)
                          THEN add(required.items, acc) ELSE acc)

merged_schema(schema) ==
    LET parts == AllOfParts(schema)
        forbid == \E i \in 1..Len(parts) :
                     IsObjectPart(parts[i]) /\ IsFalse(Get(parts[i], "additionalProperties"))
    IN JDict(<< <<"type", JStr("object")>>,
                <<"properties", MergeProperties(parts, JDict(<< >>))>>,
                <<"required", JList(MergeRequired(parts, << >>))>> >>
             \o When(forbid, << <<"additionalProperties", JBool(FALSE)>> >>))

base_classes_of(schema) ==
    LET refs == SelectSeq(AllOfParts(schema), IsRefPart)
    IN [i \in 1..Len(refs) |-> decode_ref_name(Get(refs[i], "$ref").s)]

\* The allOf branch applies: allOf is a list and every dict part is a
\* reference or an object
FoldsAllOf(schema) ==
    /\ IsDict(schema)
    /\ IsList(Get(schema, "allOf"))
    /\ \A i \in 1..Len(AllOfParts(schema)) :
          IsRefPart(AllOfParts(schema)[i]) \/ IsObjectPart(AllOfParts(schema)[i])

IsObjectSchema(schema) ==
    IsDict(schema) /\ (StrIs(Get(schema, "type"), "object") \/ HasKey(schema, "properties"))

\* _extract_inline_object_models: the schema with every inline object
\* property replaced by a reference to its lifted model
lifted_schema(parent_name, schema) ==
    LET properties == Get(schema, "properties")
        ref_schema(prop_name, prop_schema) ==
            JDict(<< <<"$ref", JStr(RefPrefix \o parent_name \o to_pascal_case(prop_name))>> >>
                  \o When(IsTrue(Get(prop_schema, "nullable")),
                          << <<"nullable", JBool(TRUE)>> >>))
    IN IF ~IsDict(properties) THEN schema
       ELSE Put(schema, "properties",
                JDict([i \in 1..Len(properties.kv) |->
                        IF should_inline_object_model(properties.kv[i][2])
                        THEN <<properties.kv[i][1],
                               ref_schema(properties.kv[i][1], properties.kv[i][2])>>
                        ELSE properties.kv[i]]))

RECURSIVE FlattenBlocks(_)
FlattenBlocks(lists) ==
    IF Len(lists) = 0 THEN << >> ELSE Head(lists) \o FlattenBlocks(Tail(lists))

\* _emit_schema_definition for a schema on which it does not raise: the
\* declarations lifted out of the schema, then the declaration of the schema
RECURSIVE emit_schema_definition(_, _, _)

\* Every block of a list marked as a lifted declaration
Lifted(nested) == [j \in 1..Len(nested) |-> [nested[j] EXCEPT !.k = "lifted"]]

\* _extract_inline_object_models: the declarations of the lifted models
extract_inline_object_models(parent_name, schema, custom) ==
    LET properties == Get(schema, "properties")
    IN IF ~IsDict(properties) THEN << >>
       ELSE FlattenBlocks([i \in 1..Len(properties.kv) |->
                IF should_inline_object_model(properties.kv[i][2])
                THEN Lifted(emit_schema_definition(
                                parent_name \o to_pascal_case(properties.kv[i][1]),
                                properties.kv[i][2], custom))
                ELSE << >>])

\* The two lines that close every declaration
AdapterLines(name) == <<name \o "Schema = TypeAdapter(" \o name \o ")", "">>

\* The declaration of a model: the lifted models, then the class with the
\* extra line of an allOf model after its header
ModelBlocks(name, fingerprint, lifted, lines, extra) ==
    lifted \o <<Block("def", name, fingerprint,
                      <<Head(lines)>> \o extra \o Tail(lines)
                      \o <<name \o ".model_rebuild()">> \o AdapterLines(name))>>

\* The declaration of a type alias
AliasBlocks(name, fingerprint, type_expr) ==
    <<Block("def", name, fingerprint,
            <<name \o ": TypeAlias = " \o type_expr>> \o AdapterLines(name))>>

\* The branches of _emit_schema_definition, in its order: an allOf of
\* references and objects folds into one model; a freeform object is an
\* alias of dict; an object is a model; anything else is an alias of its
\* type expression
DeclarationKind(schema) ==
    IF FoldsAllOf(schema) THEN "allOf"
    ELSE IF is_freeform_object(schema) THEN "freeform"
    ELSE IF IsObjectSchema(schema) THEN "object"
    ELSE "alias"

Declaration(kind, name, fingerprint, schema, custom) ==
    IF kind \in {"allOf", "object"}
    THEN ModelBlocks(name, fingerprint,
            extract_inline_object_models(
                name, IF kind = "allOf" THEN merged_schema(schema) ELSE schema, custom),
            generate_model_lines(
                name,
                lifted_schema(name, IF kind = "allOf" THEN merged_schema(schema) ELSE schema),
                IF kind = "allOf" THEN base_classes_of(schema) ELSE << >>,
                custom),
            IF kind = "allOf"
            THEN <<"    __openapi_allof__ = " \o PyRepr(Get(schema, "allOf"))>>
            ELSE << >>)
    ELSE AliasBlocks(name, fingerprint,
            IF kind = "freeform" THEN "dict[str, Any]"
            ELSE schema_to_type_expr(schema, custom))

emit_schema_definition(name, schema, custom) ==
    Declaration(DeclarationKind(schema), name, get_schema_fingerprint(schema), schema, custom)

\* The model of a schema raises: its lines, or a model lifted out of it
RECURSIVE emit_raises(_)
ModelRaises(s) ==
    \/ model_lines_raise(lifted_schema("", s))
    \/ /\ IsDict(Get(s, "properties"))
       /\ \E i \in 1..Len(Get(s, "properties").kv) :
             /\ should_inline_object_model(Get(s, "properties").kv[i][2])
             /\ emit_raises(Get(s, "properties").kv[i][2])

\* _emit_schema_definition raises (the TypeError of _generate_model_lines or
\* of _schema_to_type_expr, for the schema or for a model lifted out of it)
emit_raises(schema) ==
    IF DeclarationKind(schema) \in {"allOf", "object"}
    THEN ModelRaises(IF DeclarationKind(schema) = "allOf" THEN merged_schema(schema)
                     ELSE schema)
    ELSE DeclarationKind(schema) = "alias" /\ type_expr_raises(schema)

emit_schema_alias(name, canonical) ==
    Block("alias", name, canonical,
          <<name \o " = " \o canonical, name \o "Schema = " \o canonical \o "Schema">>)

-----------------------------------------------------------------------------
(* routes.py *)

\* Mutant: an eighth verb in the list of parse_openapi_paths
HttpMethodsAndTrace ==
    <<"get", "post", "put", "patch", "delete", "head", "options", "trace">>

HttpMethods == <<"get", "post", "put", "patch", "delete", "head", "options">>

to_upper_method(method) ==
    IF upper(method) \in {"GET", "POST", "PUT", "PATCH", "DELETE", "HEAD", "OPTIONS"}
    THEN upper(method) ELSE "GET"

\* method[:1] + method[1:].lower()
MethodPrefix(method) == CharAt(method, 1) \o lower(SubSeq(method, 2, Len(method)))

\* "".join(part.capitalize() for part in parts)
Capitalized(parts) == Concat([i \in 1..Len(parts) |-> capitalize(parts[i])])

\* routes._to_pascal_case: words of alphanumerics, each capitalized
routes_to_pascal_case(value) ==
    Capitalized(NonEmpty(Split(value, LAMBDA c : ~IsAlnumChar(c))))

PathSegments(path) == NonEmpty(Split(path, LAMBDA c : c = "/"))

\* routes._generate_route_schema_name, the names of Params, Query, Headers
\* and Body
Unbraced(part) ==
    IF startswith(part, "{") /\ endswith(part, "}")
    THEN SubSeq(part, 2, Len(part) - 1) ELSE part

PascalSegments(segments) ==
    Concat([i \in 1..Len(segments) |-> routes_to_pascal_case(Unbraced(segments[i]))])

routes_generate_route_schema_name(path, method, suffix) ==
    MethodPrefix(method) \o PascalSegments(PathSegments(path)) \o suffix

\* to_python._generate_route_schema_name, the names of the responses
SegmentWords(segment) ==
    NonEmpty(Split(replace(replace(strip(segment, "{}"), "-", " "), "_", " "),
                   LAMBDA c : c = " "))

CapitalizedSegments(segments) ==
    Concat([i \in 1..Len(segments) |-> Capitalized(SegmentWords(segments[i]))])

generate_route_schema_name(path, method, suffix) ==
    MethodPrefix(method) \o CapitalizedSegments(PathSegments(path)) \o suffix

\* The dict under `content`["application/json"] of a request body or a
\* response, or None
JsonContent(holder) ==
    IF ~IsDict(holder) THEN JNull
    ELSE IF ~IsDict(Get(holder, "content")) THEN JNull
    ELSE IF ~IsDict(Get(Get(holder, "content"), "application/json")) THEN JNull
    ELSE Get(Get(holder, "content"), "application/json")

RouteParameter(param) ==
    [name |-> PyStr(GetDefault(param, "name", JStr(""))),
     location |-> PyStr(GetDefault(param, "in", JStr("query"))),
     required |-> Truthy(Get(param, "required")),
     schema |-> GetDefault(param, "schema", JDict(<< >>))]

ParametersOf(params_src) ==
    IF ~IsList(params_src) THEN << >>
    ELSE LET dicts == DictItems(params_src)
         IN [i \in 1..Len(dicts) |-> RouteParameter(dicts[i])]

\* The schema of a JSON content, or None
ContentSchema(content) == IF IsDict(content) THEN Get(content, "schema") ELSE JNull

\* The responses of an operation that carry a JSON schema other than None,
\* as <<status code, schema>> pairs in document order
ResponsesOf(responses_obj) ==
    IF ~IsDict(responses_obj) THEN << >>
    ELSE SelectSeq(
           [i \in 1..Len(responses_obj.kv) |->
              <<responses_obj.kv[i][1], ContentSchema(JsonContent(responses_obj.kv[i][2]))>>],
           LAMBDA r : r[2].t # "null")

\* The schema of a JSON request body (the empty dict when it has none), or
\* None
BodySchema(json_content) ==
    IF IsDict(json_content) THEN GetDefault(json_content, "schema", JDict(<< >>)) ELSE JNull

RouteInfo(path, path_item, method) ==
    LET operation == Get(path_item, method)
    IN [path |-> path,
        method |-> to_upper_method(method),
        parameters |-> ParametersOf(Get(path_item, "parameters"))
                       \o ParametersOf(Get(operation, "parameters")),
        request_body |-> BodySchema(JsonContent(Get(operation, "requestBody"))),
        responses |-> ResponsesOf(Get(operation, "responses"))]

parse_openapi_paths(openapi) ==
    LET paths == Get(openapi, "paths")
        of(path, path_item) ==
            IF ~IsDict(path_item) THEN << >>
            ELSE LET methods == SelectSeq(HttpMethods,
                                          LAMBDA m : IsDict(Get(path_item, m)))
                 IN [i \in 1..Len(methods) |-> RouteInfo(path, path_item, methods[i])]
    IN IF ~IsDict(paths) THEN << >>
       ELSE FlattenBlocks([i \in 1..Len(paths.kv) |-> of(paths.kv[i][1], paths.kv[i][2])])

ParamsIn(route, location) == SelectSeq(route.parameters, LAMBDA p : p.location = location)

\* generate_route_schema_names: a name, or "" for None
SchemaNameSuffixes == {"Params", "Query", "Headers", "Body", "Response"}

\* name is the name of the route for each suffix
RouteSchemaNames(route, name) ==
    [params_schema_name |->
        IF Len(ParamsIn(route, "path")) > 0 THEN name["Params"] ELSE "",
     query_schema_name |->
        IF Len(ParamsIn(route, "query")) > 0 THEN name["Query"] ELSE "",
     headers_schema_name |->
        IF Len(ParamsIn(route, "header")) > 0 THEN name["Headers"] ELSE "",
     body_schema_name |->
        IF route.request_body.t # "null" THEN name["Body"] ELSE "",
     response_schema_name |->
        IF \E i \in 1..Len(route.responses) : startswith(route.responses[i][1], "2")
        THEN name["Response"] ELSE ""]

generate_route_schema_names(route) ==
    RouteSchemaNames(route,
        [suffix \in SchemaNameSuffixes |->
            routes_generate_route_schema_name(route.path, route.method, suffix)])

-----------------------------------------------------------------------------
(* schema_dedup.py: hoisting the schemas several routes share *)

\* extract_error_code for a dict schema: <<code>>, or << >> for None
extract_error_code(schema) ==
    LET props == Get(schema, "properties")
        error_obj == IF IsDict(props) THEN Get(props, "error") ELSE JNull
        error_props == IF IsDict(error_obj) THEN Get(error_obj, "properties") ELSE JNull
        code_schema == IF IsDict(error_props) THEN Get(error_props, "code") ELSE JNull
        code_enum == IF IsDict(code_schema) THEN Get(code_schema, "enum") ELSE JNull
    IN IF IsList(code_enum) /\ Len(code_enum.items) = 1
       THEN <<PyStr(code_enum.items[1])>>
       ELSE << >>

error_code_to_pascal_case(code) == Capitalized(Split(code, LAMBDA c : c = "_"))

generate_common_error_schema_name(error_code) ==
    error_code_to_pascal_case(error_code) \o "Error"

\* The first loop of find_common_schemas: one entry per fingerprint, in
\* order of first occurrence
RECURSIVE GroupByFingerprint(_, _)
Grouped(groups, item, fingerprint) ==
    IF \E i \in 1..Len(groups) : groups[i].fingerprint = fingerprint
    THEN [i \in 1..Len(groups) |->
            IF groups[i].fingerprint = fingerprint
            THEN [groups[i] EXCEPT !.names = Append(@, item.name)]
            ELSE groups[i]]
    ELSE Append(groups, [fingerprint |-> fingerprint, schema |-> item.schema,
                         names |-> <<item.name>>,
                         error_code |-> extract_error_code(item.schema)])

GroupByFingerprint(named, groups) ==
    IF Len(named) = 0 THEN groups
    ELSE GroupByFingerprint(Tail(named),
            Grouped(groups, Head(named), get_schema_fingerprint(Head(named).schema)))

\* sorted(common, key=count, reverse=True): stable, highest count first
RECURSIVE SortByCount(_)
SortByCount(common) ==
    IF Len(common) = 0 THEN << >>
    ELSE LET rest == SortByCount(Tail(common))
             c == Head(common).count
         IN SelectSeq(rest, LAMBDA x : x.count > c) \o <<Head(common)>>
            \o SelectSeq(rest, LAMBDA x : x.count <= c)

\* The CommonSchema of each group
CommonOf(groups) ==
    [i \in 1..Len(groups) |->
        [name |-> IF Len(groups[i].error_code) = 1
                  THEN generate_common_error_schema_name(groups[i].error_code[1])
                  ELSE groups[i].names[1],
         schema |-> groups[i].schema,
         fingerprint |-> groups[i].fingerprint,
         count |-> Len(groups[i].names)]]

find_common_schemas(named, min_count) ==
    SortByCount(CommonOf(SelectSeq(GroupByFingerprint(named, << >>),
                                   LAMBDA g : Len(g.names) >= min_count)))

\* find_common_schemas raises AttributeError: extract_error_code calls
\* schema.get on a schema that is not a dict
find_common_raises(named) == \E i \in 1..Len(named) : ~IsDict(named[i].schema)

-----------------------------------------------------------------------------
(* to_python.py: the route schemas and the Request / Response tables *)

IsSuccess(status_code) == startswith(status_code, "2")

ResponseSchemaName(route, status_code) ==
    generate_route_schema_name(route.path, route.method,
        status_code \o (IF IsSuccess(status_code) THEN "Response" ELSE "ErrorResponse"))

\* The responses of a route with a truthy schema
Named(route, kept) ==
    [i \in 1..Len(kept) |->
        [name |-> ResponseSchemaName(route, kept[i][1]), schema |-> kept[i][2],
         status_code |-> kept[i][1]]]

NamedResponses(route) == Named(route, SelectSeq(route.responses, LAMBDA r : Truthy(r[2])))

\* The name and the schema of each item
NamedSchemas(items) ==
    [i \in 1..Len(items) |-> [name |-> items[i].name, schema |-> items[i].schema]]

collect_route_schemas(parsed) ==
    NamedSchemas(FlattenBlocks([i \in 1..Len(parsed) |-> NamedResponses(parsed[i])]))

\* The dict comprehension {param["name"]: param["schema"] for param in params}
RECURSIVE ParamProperties(_, _)
ParamProperties(params, acc) ==
    IF Len(params) = 0 THEN acc
    ELSE ParamProperties(Tail(params), Put(acc, Head(params).name, Head(params).schema))

build_openapi_object_schema(params) ==
    LET required == SelectSeq(params, LAMBDA p : p.required)
    IN JDict(<< <<"type", JStr("object")>>,
                <<"properties", ParamProperties(params, JDict(<< >>))>>,
                <<"required", JList([i \in 1..Len(required) |-> JStr(required[i].name)])>> >>)

AllRequired(params) == [i \in 1..Len(params) |-> [params[i] EXCEPT !.required = TRUE]]

\* The request parts of a route, in the order the code handles them: the key
\* of the Request table, the schema name and the schema
PartsNamed(route, names) ==
    LET part(key, name, schema) == [key |-> key, name |-> name, schema |-> schema]
    IN When(names.params_schema_name # "" /\ Len(ParamsIn(route, "path")) > 0,
            <<part("params", names.params_schema_name,
                   build_openapi_object_schema(AllRequired(ParamsIn(route, "path"))))>>)
       \o When(names.query_schema_name # "" /\ Len(ParamsIn(route, "query")) > 0,
               <<part("query", names.query_schema_name,
                      build_openapi_object_schema(ParamsIn(route, "query")))>>)
       \o When(names.headers_schema_name # "" /\ Len(ParamsIn(route, "header")) > 0,
               <<part("headers", names.headers_schema_name,
                      build_openapi_object_schema(ParamsIn(route, "header")))>>)
       \o When(names.body_schema_name # "" /\ route.request_body.t # "null",
               <<part("body", names.body_schema_name, route.request_body)>>)

RequestParts(route) == PartsNamed(route, generate_route_schema_names(route))

\* The register_and_emit calls of _generate_route_schemas, in order
RouteCalls(parsed) ==
    FlattenBlocks([i \in 1..Len(parsed) |->
        NamedSchemas(RequestParts(parsed[i])) \o NamedSchemas(NamedResponses(parsed[i]))])

\* A variant that returns the name of the adapter, not of the schema
ResolveToAdapter(canonical, name) ==
    (IF name \in DOMAIN canonical THEN canonical[name] ELSE name) \o "Schema"

\* resolve_schema_name
resolve_schema_name(canonical, name) ==
    IF name \in DOMAIN canonical THEN canonical[name] ELSE name

\* The paths of the routes, each once, in order of first occurrence
RECURSIVE PathsOf(_, _)
PathsOf(parsed, acc) ==
    IF Len(parsed) = 0 THEN acc
    ELSE PathsOf(Tail(parsed),
                 IF Contains(acc, Head(parsed).path) THEN acc ELSE Append(acc, Head(parsed).path))

RoutesAt(parsed, path) == SelectSeq(parsed, LAMBDA r : r.path = path)

\* The entries of the Response table: the name each status code of each
\* route refers to
EntriesOf(route, responses, canonical) ==
    [j \in 1..Len(responses) |->
        [path |-> route.path, method |-> route.method,
         status_code |-> responses[j].status_code,
         schema |-> responses[j].schema,
         name |-> responses[j].name,
         refers_to |-> resolve_schema_name(canonical, responses[j].name)]]

ResponseEntries(parsed, canonical) ==
    FlattenBlocks([i \in 1..Len(parsed) |->
        EntriesOf(parsed[i], NamedResponses(parsed[i]), canonical)])

\* The entry of one method under a path: items are <<key, schema name>>
MethodLines(method, items) ==
    <<"        " \o PyRepr(JStr(method)) \o ": {">>
    \o [j \in 1..Len(items) |->
          "            " \o PyRepr(JStr(items[j][1])) \o ": " \o items[j][2] \o "Schema,"]
    \o <<"        },">>

\* The entry of one path: entries are the lines of its methods
PathLines(path, entries) ==
    <<"    " \o PyRepr(JStr(path)) \o ": {">> \o FlattenBlocks(entries) \o <<"    },">>

RequestItems(parts, canonical) ==
    [j \in 1..Len(parts) |-> <<parts[j].key, resolve_schema_name(canonical, parts[j].name)>>]

\* The routes of a path that have request parts, each with its parts
RoutesWithParts(with_parts) ==
    SelectSeq([i \in 1..Len(with_parts) |->
                  [method |-> with_parts[i].method, parts |-> RequestParts(with_parts[i])]],
              LAMBDA r : Len(r.parts) > 0)

RequestPathLines(path, with_parts, canonical) ==
    IF Len(with_parts) = 0 THEN << >>
    ELSE PathLines(path, [i \in 1..Len(with_parts) |->
                            MethodLines(with_parts[i].method,
                                        RequestItems(with_parts[i].parts, canonical))])

RequestTable(parsed, paths, canonical) ==
    <<"Request = {">>
    \o FlattenBlocks([i \in 1..Len(paths) |->
          RequestPathLines(paths[i], RoutesWithParts(RoutesAt(parsed, paths[i])), canonical)])
    \o <<"}", "">>

RequestLines(parsed, canonical) == RequestTable(parsed, PathsOf(parsed, << >>), canonical)

ResponseItems(mine) == [j \in 1..Len(mine) |-> <<mine[j].status_code, mine[j].refers_to>>]

ResponsePathLines(path, at, entries) ==
    PathLines(path, [i \in 1..Len(at) |->
        MethodLines(at[i].method,
            ResponseItems(SelectSeq(entries,
                LAMBDA e : e.path = at[i].path /\ e.method = at[i].method)))])

ResponseTable(parsed, paths, entries) ==
    <<"Response = {">>
    \o FlattenBlocks([i \in 1..Len(paths) |->
          ResponsePathLines(paths[i], RoutesAt(parsed, paths[i]), entries)])
    \o <<"}">>

ResponseLines(parsed, canonical) ==
    ResponseTable(parsed, PathsOf(parsed, << >>), ResponseEntries(parsed, canonical))

\* Mutant: the Response table put before the Request table
TablesSwapped(parsed, canonical) ==
    ResponseLines(parsed, canonical) \o RequestLines(parsed, canonical)

generate_request_response_objects(parsed, canonical) ==
    RequestLines(parsed, canonical) \o ResponseLines(parsed, canonical)

-----------------------------------------------------------------------------
(* to_python.py: openapi_to_pydantic_code, as a state machine.  A document
   is [openapi, custom_import_lines, options]. *)

Preamble ==
    << "# This file was automatically generated from OpenAPI schema",
       "# Do not manually edit this file",
       "from __future__ import annotations",
       "",
       "from typing import Any, Annotated, Literal, Optional, TypeAlias, Union",
       "from datetime import date, datetime",
       "from uuid import UUID",
       "",
       "from pydantic import BaseModel, ConfigDict, Field, RootModel, TypeAdapter",
       "from pydantic import AnyUrl, EmailStr",
       "from python_zod_openapi.all_of import all_of",
       "" >>

\* components.schemas when both are dicts, else the empty dict
ComponentSchemas(openapi) ==
    LET components == Get(openapi, "components")
        found == IF IsDict(components) /\ Truthy(Get(components, "schemas"))
                 THEN Get(components, "schemas") ELSE JDict(<< >>)
    IN IF IsDict(found) THEN found ELSE JDict(<< >>)

IncludeRoutes(options) == Truthy(options) /\ Truthy(Get(options, "include_routes"))

\* Mutant: a compilation goes on with the registry the previous one left
ReusedRegistry(previous) == previous

\* The registry a compilation works with: a new one, whatever an earlier
\* compilation left behind
CompileRegistry(previous) == create_schema_registry

\* The state of the process-wide custom registry the converters read
Custom == [formats |-> string_format_to_name, primitives |-> primitive_type_to_name]

Text(k, lines) == Block(k, "", "", lines)

\* The exception leaves the function: nothing is returned
Raise ==
    /\ cpc' = "raised"
    /\ out' = << >>
    /\ todo' = << >>
    /\ declarations' = << >>
    /\ name_to_canonical' = << >>
    /\ routes' = << >>
    /\ UNCHANGED <<doc, seen, fingerprint_to_name>>

Compile(d) ==
    /\ cpc = "idle"
    /\ doc' = d
    /\ cpc' = "components"
    /\ todo' = topological_sort_schemas(ComponentSchemas(d.openapi))
    /\ out' = <<Text("preamble",
                     Preamble \o When(Len(d.custom_import_lines) > 0,
                                      d.custom_import_lines \o <<"">>))>>
    /\ fingerprint_to_name' = CompileRegistry(fingerprint_to_name)
    /\ declarations' = << >>
    /\ name_to_canonical' = << >>
    /\ routes' = << >>
    /\ UNCHANGED seen

\* One turn of the loop over the sorted top-level schemas
Component(name, schema) ==
    IF schema.t = "null"
    THEN /\ todo' = Tail(todo)
         /\ UNCHANGED <<doc, cpc, out, declarations, name_to_canonical, routes, seen,
                        fingerprint_to_name>>
    ELSE IF emit_raises(schema) THEN Raise
    ELSE /\ out' = out \o emit_schema_definition(name, schema, Custom)
         /\ fingerprint_to_name' =
                pre_register_schema(fingerprint_to_name, name, get_schema_fingerprint(schema))
         /\ todo' = Tail(todo)
         /\ UNCHANGED <<doc, cpc, declarations, name_to_canonical, routes, seen>>

EmitComponent ==
    /\ cpc = "components"
    /\ Len(todo) > 0
    /\ Component(Head(todo), Get(ComponentSchemas(doc.openapi), Head(todo)))

\* After the loop: parse the routes and look for the schemas they share
\* The routes of the document, none unless include_routes is set
ParsedRoutes(d) ==
    IF IncludeRoutes(d.options) THEN parse_openapi_paths(d.openapi) ELSE << >>

Hoist(parsed, common) ==
    /\ routes' = parsed
    /\ IF Len(common) > 0
       THEN /\ cpc' = "hoist"
            /\ todo' = common
            /\ out' = Append(out, Text("comment",
                        <<"# Common Error Schemas (deduplicated)">>))
       ELSE /\ cpc' = "routes"
            /\ todo' = RouteCalls(parsed)
            /\ out' = out
    /\ UNCHANGED <<doc, declarations, name_to_canonical, seen, fingerprint_to_name>>

Collected(parsed, collected) ==
    IF Len(parsed) = 0
    THEN /\ cpc' = "done"
         /\ UNCHANGED <<doc, todo, out, declarations, name_to_canonical, routes, seen,
                        fingerprint_to_name>>
    ELSE IF find_common_raises(collected) THEN Raise
    ELSE Hoist(parsed, find_common_schemas(collected, 2))

BeginRoutes ==
    /\ cpc = "components"
    /\ Len(todo) = 0
    /\ Collected(ParsedRoutes(doc), collect_route_schemas(ParsedRoutes(doc)))

\* One turn of the loop over the common schemas; the last turn also closes
\* the section and starts _generate_route_schemas
EmitCommon ==
    /\ cpc = "hoist"
    /\ Len(todo) > 0
    /\ LET common == Head(todo)
           last == Len(todo) = 1
           known == common.fingerprint \in DOMAIN fingerprint_to_name
           closing == When(last, <<Text("blank", <<"">>)>>)
       IN IF ~known /\ emit_raises(common.schema) THEN Raise
          ELSE /\ out' = out
                         \o (IF known THEN << >>
                             ELSE emit_schema_definition(common.name, common.schema, Custom))
                         \o closing
               /\ fingerprint_to_name' =
                      IF known THEN fingerprint_to_name
                      ELSE pre_register_schema(fingerprint_to_name, common.name,
                                               common.fingerprint)
               /\ todo' = IF last THEN RouteCalls(routes) ELSE Tail(todo)
               /\ cpc' = IF last THEN "routes" ELSE "hoist"
               /\ UNCHANGED <<doc, declarations, name_to_canonical, routes, seen>>

\* register_and_emit for the next schema of the next route
Registered(call, result) ==
    IF result.is_new /\ emit_raises(call.schema) THEN Raise
    ELSE /\ fingerprint_to_name' = result.registry
         /\ name_to_canonical' = TableSet(name_to_canonical, call.name, result.canonical_name)
         /\ declarations' =
                declarations
                \o (IF result.is_new
                    THEN emit_schema_definition(call.name, call.schema, Custom)
                    ELSE IF call.name # result.canonical_name
                    THEN <<[emit_schema_alias(call.name, result.canonical_name)
                              EXCEPT !.lines = @ \o <<"">>]>>
                    ELSE << >>)
         /\ todo' = Tail(todo)
         /\ UNCHANGED <<doc, cpc, out, routes, seen>>

RegisterAndEmit ==
    /\ cpc = "routes"
    /\ Len(todo) > 0
    /\ Registered(Head(todo), register_schema(fingerprint_to_name, Head(todo).name,
                                              Head(todo).schema))

\* After the last route: the route section and the tables, if anything was
\* declared
EmitTables ==
    /\ cpc = "routes"
    /\ Len(todo) = 0
    /\ out' = out \o When(Len(declarations) > 0,
                          <<Text("comment", <<"# Route Schemas">>)>>
                          \o declarations
                          \o <<Text("blank", <<"">>),
                               Text("tables",
                                    generate_request_response_objects(routes,
                                                                      name_to_canonical))>>)
    /\ cpc' = "done"
    /\ UNCHANGED <<doc, todo, declarations, name_to_canonical, routes, seen,
                   fingerprint_to_name>>

\* "\n".join(lines)
OutputText(blocks) ==
    Join(FlattenBlocks([i \in 1..Len(blocks) |-> blocks[i].lines]), "\n")

CustomCleared == string_format_to_name = << >> /\ primitive_type_to_name = << >>

Forget ==
    /\ doc' = JNull
    /\ cpc' = "idle"
    /\ todo' = << >>
    /\ out' = << >>
    /\ declarations' = << >>
    /\ name_to_canonical' = << >>
    /\ routes' = << >>
    /\ UNCHANGED fingerprint_to_name

\* The call returns or raises
Return ==
    /\ cpc \in {"done", "raised"}
    /\ Forget
    /\ UNCHANGED seen

\* The same, and the caller keeps the result of this compilation, which ran
\* on a cleared custom registry, to compare later ones with
ReturnAndKeep ==
    /\ cpc \in {"done", "raised"}
    /\ CustomCleared
    /\ seen = << >>
    /\ Forget
    /\ seen' = <<[doc |-> doc, result |-> cpc, out |-> out]>>

-----------------------------------------------------------------------------
(* The documents compiled *)

SEmail == JDict(<< <<"type", JStr("string")>>, <<"format", JStr("email")>> >>)

\* An error body that carries its code: {"error": {"code": "UNAUTHORIZED"}}
SUnauthorized ==
    JDict(<< <<"type", JStr("object")>>,
             <<"properties", JDict(<< <<"error",
                 JDict(<< <<"type", JStr("object")>>,
                          <<"properties", JDict(<< <<"code",
                              JDict(<< <<"type", JStr("string")>>,
                                       <<"enum", JList(<<JStr("UNAUTHORIZED")>>)>> >>)>> >>)>>
                       >>)>> >>)>> >>)

\* B extends A and adds two fields, one of them an inline object
SExtendsA ==
    JDict(<< <<"allOf", JList(<< Ref("A"),
                JDict(<< <<"type", JStr("object")>>,
                         <<"properties", JDict(<< <<"e-mail", SEmail>>,
                                                  <<"owner", SUser>> >>)>>,
                         <<"required", JList(<<JStr("e-mail")>>)>> >>) >>)>> >>)

\* Ill-typed schemas
SRequiredNotAList ==
    JDict(<< <<"type", JStr("object")>>,
             <<"properties", JDict(<< <<"id", SString>> >>)>>,
             <<"required", JInt(5)>> >>)
STypeIsAList == JDict(<< <<"type", JList(<<JStr("string"), JStr("null")>>)>> >>)

\* Component maps every schema of which can be declared
Declarable ==
    { << >>,
      << <<"A", SUser>> >>,
      << <<"A", SUser>>, <<"B", SUserReordered>> >>,
      << <<"", SUser>> >>,
      << <<"B", SExtendsA>>, <<"A", SUnauthorized>> >> }

\* A holds a B and B extends itself: A depends on a name that is on a cycle
SHoldsB ==
    JDict(<< <<"type", JStr("object")>>,
             <<"properties", JDict(<< <<"b", Ref("B")>> >>)>> >>)
SExtendsItself == JDict(<< <<"allOf", JList(<<Ref("B")>>)>> >>)
DependsOnCycle == << <<"A", SHoldsB>>, <<"B", SExtendsItself>> >>

\* A holds an inline object under b, and another component is named AB
SHoldsInline ==
    JDict(<< <<"type", JStr("object")>>,
             <<"properties", JDict(<< <<"b", SUser>> >>)>> >>)
SZip ==
    JDict(<< <<"type", JStr("object")>>,
             <<"properties", JDict(<< <<"zip", SInteger>> >>)>> >>)
LiftedNameTaken == << <<"A", SHoldsInline>>, <<"AB", SZip>> >>

\* Component maps with an ill-typed schema
IllTyped ==
    { << <<"A", SRequiredNotAList>> >>,
      << <<"A", JNull>>, <<"B", STypeIsAList>> >> }

JsonBody(schema) ==
    JDict(<< <<"content", JDict(<< <<"application/json",
                 JDict(<< <<"schema", schema>> >>)>> >>)>> >>)

Parameter(name, location, required) ==
    JDict(<< <<"name", JStr(name)>>, <<"in", JStr(location)>>,
             <<"required", JBool(required)>>, <<"schema", SString>> >>)

\* Two routes that answer 200 with a user and 401 with the same error body
SharedResponses ==
    << <<"/users", JDict(<< <<"get", JDict(<< <<"responses", JDict(<<
            <<"200", JsonBody(SUser)>>, <<"401", JsonBody(SUnauthorized)>> >>)>> >>)>> >>)>>,
       <<"/users/{user_id}", JDict(<< <<"get", JDict(<<
            <<"parameters", JList(<<Parameter("user_id", "path", TRUE)>>)>>,
            <<"responses", JDict(<<
                <<"200", JsonBody(SUserReordered)>>,
                <<"401", JsonBody(SUnauthorized)>> >>)>> >>)>> >>)>> >>

\* One path with two methods: a body, a query, a header, an empty response
\* schema and a response without JSON content
Methods ==
    << <<"/user-items", JDict(<<
          <<"parameters", JList(<<Parameter("X-Trace", "header", FALSE), JStr("x")>>)>>,
          <<"post", JDict(<<
              <<"requestBody", JsonBody(SUser)>>,
              <<"responses", JDict(<< <<"201", JsonBody(JDict(<< >>))>>,
                                      <<"204", JDict(<< >>)>> >>)>> >>)>>,
          <<"get", JDict(<<
              <<"parameters", JList(<<Parameter("limit", "query", FALSE),
                                      Parameter("class", "query", TRUE)>>)>>,
              <<"responses", JDict(<< <<"200", JsonBody(Ref("A"))>> >>)>> >>)>> >>)>> >>

\* A response whose schema is not a mapping
BadResponse ==
    << <<"/x", JDict(<< <<"get", JDict(<< <<"responses", JDict(<<
            <<"200", JsonBody(JStr("A"))>> >>)>> >>)>> >>)>> >>

\* Two paths whose routes get the same names, /users/me and /users/{me},
\* and a third route that answers like the first
Answers(schema) ==
    JDict(<< <<"get", JDict(<< <<"responses", JDict(<<
            <<"200", JsonBody(schema)>> >>)>> >>)>> >>)
SameNames ==
    << <<"/users/me", Answers(SZip)>>, <<"/users/{me}", Answers(SUser)>>,
       <<"/c", Answers(SZip)>> >>

RoutesOn == JDict(<< <<"include_routes", JBool(TRUE)>> >>)

Document(components, paths, imports, options) ==
    [openapi |-> JDict(When(Len(components) > 0,
                            << <<"components", JDict(<< <<"schemas", JDict(components)>> >>)>> >>)
                       \o When(Len(paths) > 0, << <<"paths", JDict(paths)>> >>)),
     custom_import_lines |-> imports,
     options |-> options]

Documents ==
    {Document(c, << >>, << >>, JNull) : c \in Declarable \cup IllTyped \cup {DependsOnCycle, LiftedNameTaken}}
    \cup {Document(c, SharedResponses, << >>, RoutesOn) : c \in Declarable}
    \cup {Document(<< <<"A", SUser>> >>, p, << >>, RoutesOn) : p \in {Methods, BadResponse, SameNames}}
    \cup {Document(<< <<"A", SEmail>> >>, SharedResponses, <<"import x">>, JNull)}

\* The registrations made between compilations
CompileRegisterCalls ==
    {c \in RegisterCalls :
        /\ RegName(c[2]) = "X"
        /\ StrIs(Get(c[2], "format"), "email")}

InitCompile == IdleTopo /\ IdleDedup /\ IdleReg /\ IdleComp /\ IdleCall

NextCompile ==
    \/ \E d \in Documents :
          Compile(d) /\ UNCHANGED <<topoVars, first_caller, last_result, regVars, callVars>>
    \/ EmitComponent /\ UNCHANGED <<topoVars, first_caller, last_result, regVars, callVars>>
    \/ BeginRoutes /\ UNCHANGED <<topoVars, first_caller, last_result, regVars, callVars>>
    \/ EmitCommon /\ UNCHANGED <<topoVars, first_caller, last_result, regVars, callVars>>
    \/ RegisterAndEmit /\ UNCHANGED <<topoVars, first_caller, last_result, regVars, callVars>>
    \/ EmitTables /\ UNCHANGED <<topoVars, first_caller, last_result, regVars, callVars>>
    \/ Return /\ UNCHANGED <<topoVars, first_caller, last_result, regVars, callVars>>
    \/ ReturnAndKeep /\ UNCHANGED <<topoVars, first_caller, last_result, regVars, callVars>>
    \/ \E c \in CompileRegisterCalls :
          cpc = "idle" /\ Register(c[1], c[2]) /\ UNCHANGED <<topoVars, dedupVars, compVars, callVars>>
    \/ cpc = "idle" /\ Clear /\ UNCHANGED <<topoVars, dedupVars, compVars, callVars>>

SpecCompile == InitCompile /\ [][NextCompile]_vars

-----------------------------------------------------------------------------
(* Properties of one compilation *)

\* The full declarations among the blocks, lifted models included
FullDeclarations(blocks) == SelectSeq(blocks, LAMBDA b : b.k \in {"def", "lifted"})
DeclarationsOf(blocks, fingerprint) ==
    SelectSeq(FullDeclarations(blocks), LAMBDA b : b.ref = fingerprint)
HasAlias(blocks, name, canonical) ==
    \E i \in 1..Len(blocks) :
        blocks[i].k = "alias" /\ blocks[i].name = name /\ blocks[i].ref = canonical

\* The top-level components that are declared: those whose schema is not None
DeclaredComponents ==
    {n \in KeySet(ComponentSchemas(doc.openapi)) :
        Get(ComponentSchemas(doc.openapi), n).t # "null"}
ComponentFingerprint(n) == get_schema_fingerprint(Get(ComponentSchemas(doc.openapi), n))

(* C1: in the output of a compilation every fingerprint has exactly one full
   declaration, and of two top-level components with equal fingerprints one
   is that declaration and the other is emitted as an alias of it. *)
OneDeclarationPerFingerprint ==
    cpc = "done" =>
        /\ \A i \in 1..Len(FullDeclarations(out)) :
              Len(DeclarationsOf(out, FullDeclarations(out)[i].ref)) = 1
        /\ \A n1, n2 \in DeclaredComponents :
              (n1 # n2 /\ ComponentFingerprint(n1) = ComponentFingerprint(n2))
                 => \E x, y \in {n1, n2} :
                       /\ x # y
                       /\ DeclarationsOf(out, ComponentFingerprint(x))[1].name = x
                       /\ HasAlias(out, y, x)

\* The Response-table entries whose schema another route answers with too
SharedEntries ==
    LET entries == ResponseEntries(routes, name_to_canonical)
        same(e, f) == get_schema_fingerprint(e.schema) = get_schema_fingerprint(f.schema)
        other(e, f) == e.path # f.path \/ e.method # f.method
    IN SelectSeq(entries,
                 LAMBDA e : \E i \in 1..Len(entries) : other(e, entries[i]) /\ same(e, entries[i]))

(* C4: with route generation on, a response schema that two or more routes
   share has exactly one full declaration in the output; each route-level
   name for it is that declaration or an alias of it, and each entry of the
   Response table for it refers to that declaration. *)
SharedResponseDeclaredOnce ==
    (cpc = "done" /\ Len(routes) > 0) =>
        \A i \in 1..Len(SharedEntries) :
            LET e == SharedEntries[i]
                found == DeclarationsOf(out, get_schema_fingerprint(e.schema))
            IN /\ Len(found) = 1
               /\ e.name = found[1].name \/ HasAlias(out, e.name, found[1].name)
               /\ e.refers_to = found[1].name
               /\ \E j \in 1..Len(out) : out[j].k = "tables"

(* C5: during per-route registration, a route schema whose fingerprint is
   that of a schema declared before (a top-level component, a hoisted common
   schema or an earlier route schema) adds an alias of that declaration, or
   nothing when it carries the same name, and never a full declaration. *)
RouteSchemaCollapses ==
    [][ (cpc = "routes" /\ Len(todo) > 0 /\ cpc' = "routes") =>
          LET call == Head(todo)
              fingerprint == get_schema_fingerprint(call.schema)
              earlier == SelectSeq(out \o declarations,
                                   LAMBDA b : b.k = "def" /\ b.ref = fingerprint)
              added == SubSeq(declarations', Len(declarations) + 1, Len(declarations'))
          IN Len(earlier) > 0 =>
                \/ /\ added = << >>
                   /\ \E j \in 1..Len(earlier) : earlier[j].name = call.name
                \/ /\ Len(added) = 1
                   /\ added[1].k = "alias"
                   /\ added[1].name = call.name
                   /\ \E j \in 1..Len(earlier) : earlier[j].name = added[1].ref ]_vars

(* C9: openapi_to_pydantic_code never raises, whatever the document: an
   absent or wrongly-typed field is treated as absent. *)
NeverRaises == cpc # "raised"

IsPrefix(s, t) == Len(s) <= Len(t) /\ SubSeq(t, 1, Len(s)) = s

(* C10: a compilation that runs on a cleared custom registry gives the same
   result (the same declarations in the same order, or the same failure) as
   the earlier compilation of the same document on a cleared custom
   registry, whatever was compiled and registered in between; at every point
   on its way it has emitted a prefix of that output. *)
Deterministic ==
    (CustomCleared /\ Len(seen) = 1 /\ seen[1].doc = doc)
        => /\ cpc \in {"done", "raised"} => (seen[1].result = cpc /\ seen[1].out = out)
           /\ (cpc \in {"components", "hoist", "routes"} /\ seen[1].result = "done")
                 => IsPrefix(out, seen[1].out)

\* A document with routes has been compiled a second time, after the custom
\* registry was filled and cleared again, and its output has full
\* declarations, aliases and the tables
DeterministicWitness ==
    /\ cpc = "done"
    /\ CustomCleared
    /\ reg_outcome.call = "clear"
    /\ Len(seen) = 1
    /\ seen[1].doc = doc
    /\ seen[1].out = out
    /\ DOMAIN fingerprint_to_name # {}
    /\ \E i, j, k \in 1..Len(out) :
          out[i].k = "def" /\ out[j].k = "alias" /\ out[k].k = "tables"

-----------------------------------------------------------------------------
(* The order of the output *)

\* The schemas the hoisting pass found for the routes of this compilation
CommonHere == find_common_schemas(collect_route_schemas(routes), 2)

\* Where the declarations of _generate_route_schemas sit in the output: they
\* are followed by a blank line and the tables
RouteSegment ==
    IF Len(declarations) = 0 THEN {}
    ELSE (Len(out) - Len(declarations) - 1)..(Len(out) - 2)

\* fingerprints is the fingerprint of each declared component
IsComponentDeclaration(i, fingerprints) ==
    /\ out[i].k = "def"
    /\ i \notin RouteSegment
    /\ out[i].name \in DOMAIN fingerprints
    /\ out[i].ref = fingerprints[out[i].name]

IsHoistedDeclaration(i, common) ==
    /\ out[i].k = "def"
    /\ i \notin RouteSegment
    /\ \E j \in 1..Len(common) :
          common[j].name = out[i].name /\ common[j].fingerprint = out[i].ref

\* The declaration a block belongs to: a lifted model belongs to the
\* declaration that follows the lifted models
Owner(i) ==
    IF out[i].k # "lifted" THEN i
    ELSE CHOOSE j \in (i + 1)..Len(out) :
            out[j].k # "lifted" /\ \A m \in i..(j - 1) : out[m].k = "lifted"

\* 1 for a top-level component, 2 for a hoisted schema, 3 for the
\* declarations and aliases of the routes, 4 for the tables, 0 for the
\* lines that declare nothing
Section(i, fingerprints, common) ==
    IF out[i].k = "tables" THEN 4
    ELSE IF i \in RouteSegment /\ out[i].k \in {"def", "alias"} THEN 3
    ELSE IF IsComponentDeclaration(i, fingerprints) THEN 1
    ELSE IF IsHoistedDeclaration(i, common) THEN 2
    ELSE 0

Sections(fingerprints, common) ==
    [i \in 1..Len(out) |-> Section(Owner(i), fingerprints, common)]

SectionsHere ==
    Sections([n \in DeclaredComponents |-> ComponentFingerprint(n)], CommonHere)

\* The blocks with a section are in the order of the sections, every
\* declaration has a section, and the components are in the sorted order
Ordered(section, sorted) ==
    /\ \A i, j \in 1..Len(out) :
          (i < j /\ section[i] # 0 /\ section[j] # 0) => section[i] <= section[j]
    /\ \A i \in 1..Len(out) :
          out[i].k \in {"def", "lifted", "alias", "tables"} => section[i] # 0
    /\ \A i, j \in 1..Len(out) :
          (i < j /\ section[i] = 1 /\ section[j] = 1 /\ out[i].k = "def" /\ out[j].k = "def")
             => IndexOf(sorted, out[i].name) < IndexOf(sorted, out[j].name)
    /\ \A n \in DeclaredComponents :
          \E i \in 1..Len(out) : section[i] = 1 /\ out[i].k = "def" /\ out[i].name = n

\* The names the components of smap reach from the frontier by one or more
\* local references
RECURSIVE ComponentsReached(_, _, _)
ComponentsReached(smap, frontier, found) ==
    LET next == {b \in KeySet(smap) : \E a \in frontier : b \in valid_deps(smap, a)} \ found
    IN IF next = {} THEN found ELSE ComponentsReached(smap, next, found \cup next)

\* A component that references another one that does not lead back to it is
\* declared after it
DependenciesFirst(section, smap) ==
    \A i, j \in 1..Len(out) :
        (/\ i < j /\ section[i] = 1 /\ section[j] = 1
         /\ out[i].k = "def" /\ out[j].k = "def"
         /\ out[i].name # out[j].name
         /\ out[j].name \in valid_deps(smap, out[i].name))
            => out[i].name \in ComponentsReached(smap, {out[j].name}, {})

(* C11: in the output of a compilation the declarations of the top-level
   components, in topological order (the order topological_sort_schemas
   gives them, with every dependency that is not on a cycle first), come before
   the hoisted common declarations, these before the declarations and
   aliases of the routes, these before the tables, and in the tables Request
   comes before Response; every declaration of the output is of one of these
   kinds. *)
SectionsInOrder ==
    cpc = "done" =>
        /\ Ordered(SectionsHere, topological_sort_schemas(ComponentSchemas(doc.openapi)))
        /\ DependenciesFirst(SectionsHere, ComponentSchemas(doc.openapi))
        /\ Len(declarations) > 0 =>
              /\ SubSeq(out, Len(out) - Len(declarations) - 1, Len(out) - 2) = declarations
              /\ out[Len(out)].k = "tables"
              /\ Contains(out[Len(out)].lines, "Request = {")
              /\ Contains(out[Len(out)].lines, "Response = {")
              /\ IndexOf(out[Len(out)].lines, "Request = {")
                    < IndexOf(out[Len(out)].lines, "Response = {")
        /\ \A i \in 1..Len(out) : out[i].k = "tables" => i = Len(out)

\* Some block of each kind
HasSections(section) ==
    \E i, j, k, l \in 1..Len(out) :
        /\ section[i] = 1 /\ section[j] = 2
        /\ section[k] = 3 /\ out[k].k = "def"
        /\ section[l] = 3 /\ out[l].k = "alias"
        /\ section[Len(out)] = 4

\* An output with a component, a hoisted schema, a full declaration and an
\* alias of a route, and the tables
SectionsWitness == cpc = "done" /\ Len(out) > 0 /\ HasSections(SectionsHere)

-----------------------------------------------------------------------------
(* The Request and Response tables of an output, read back from its lines *)

\* The text between the first two quotes of a line
Quoted(line) == Split(line, LAMBDA c : c = "'")[2]

\* The entries of the lines from i on as <<table, path, method, key>>, read
\* with the table, the path and the method of the lines before
RECURSIVE TableEntries(_, _, _, _, _)
TableEntries(lines, i, table, path, method) ==
    IF i > Len(lines) THEN {}
    ELSE IF lines[i] = "Request = {" THEN TableEntries(lines, i + 1, "Request", "", "")
    ELSE IF lines[i] = "Response = {" THEN TableEntries(lines, i + 1, "Response", "", "")
    ELSE IF startswith(lines[i], "            '")
    THEN {<<table, path, method, Quoted(lines[i])>>}
         \cup TableEntries(lines, i + 1, table, path, method)
    ELSE IF startswith(lines[i], "        '")
    THEN TableEntries(lines, i + 1, table, path, Quoted(lines[i]))
    ELSE IF startswith(lines[i], "    '")
    THEN TableEntries(lines, i + 1, table, Quoted(lines[i]), "")
    ELSE TableEntries(lines, i + 1, table, path, method)

\* The lines that open the entry of a path or of a method that holds nothing
EmptyEntries(lines) ==
    {i \in 1..(Len(lines) - 1) :
        /\ startswith(lines[i], "    ")
        /\ endswith(lines[i], ": {")
        /\ lines[i + 1] \in {"    },", "        },"}}

\* The entries a route must have in the tables for the parts it has
Entry(route, table, key) == <<table, route.path, route.method, key>>

\* The entry of a part the route has
EntryIf(has, route, table, key) == IF has THEN {Entry(route, table, key)} ELSE {}

PartsOf(route) ==
    EntryIf(Len(ParamsIn(route, "path")) > 0, route, "Request", "params")
    \cup EntryIf(Len(ParamsIn(route, "query")) > 0, route, "Request", "query")
    \cup EntryIf(Len(ParamsIn(route, "header")) > 0, route, "Request", "headers")
    \cup EntryIf(route.request_body.t # "null", route, "Request", "body")
    \cup {Entry(route, "Response", route.responses[j][1]) :
            j \in {j \in DOMAIN route.responses : Truthy(route.responses[j][2])}}

Tabulated(lines) ==
    /\ TableEntries(lines, 1, "", "", "") = UNION {PartsOf(routes[i]) : i \in DOMAIN routes}
    /\ EmptyEntries(lines) = {}

(* C18: the Request and Response tables of an output hold an entry for a
   role of a route (params, query, headers, body, or a status code) exactly
   when the route has the part, and hold no empty entry for a path or a
   method without parts. *)
TablesHoldTheParts ==
    (cpc = "done" /\ Len(out) > 0 /\ out[Len(out)].k = "tables")
        => Tabulated(out[Len(out)].lines)

\* The responses of the routes that are not 2xx and carry a schema, as
\* <<route index, response index>> pairs
ErrorResponses ==
    {p \in UNION {{<<i, j>> : j \in DOMAIN routes[i].responses} : i \in DOMAIN routes} :
        /\ ~IsSuccess(routes[p[1]].responses[p[2]][1])
        /\ Truthy(routes[p[1]].responses[p[2]][2])}

\* How many of them have the fingerprint
ErrorCount(fingerprint) ==
    Cardinality({p \in ErrorResponses :
        get_schema_fingerprint(routes[p[1]].responses[p[2]][2]) = fingerprint})

HoistedFrom(section) == {i \in 1..Len(out) : section[i] = 2 /\ out[i].k = "def"}

(* C19: every declaration hoisted into the shared section of an output has
   the fingerprint of at least two non-2xx responses of the routes; the
   schema of 2xx responses alone is never hoisted. *)
OnlyErrorsHoisted ==
    cpc = "done" =>
        \A i \in HoistedFrom(SectionsHere) : ErrorCount(out[i].ref) >= 2

-----------------------------------------------------------------------------
(* The names of an output: aliases, full declarations, table references *)

IsFull(block) == block.k \in {"def", "lifted"}

\* The aliases of the output, by position
Aliases == {i \in 1..Len(out) : out[i].k = "alias"}

(* C22: every alias `X = Y` of an output targets a name Y that has a full
   declaration earlier in the output, and that is the name of no alias. *)
AliasesTargetDeclarations ==
    \A i \in Aliases :
        /\ out[i].lines[1] = out[i].name \o " = " \o out[i].ref
        /\ \E j \in 1..(i - 1) : IsFull(out[j]) /\ out[j].name = out[i].ref
        /\ \A j \in Aliases : out[j].name # out[i].ref

(* C28: no two full declarations of an output have the same name. *)
DeclaredNamesDistinct ==
    \A i, j \in 1..Len(out) :
        (i # j /\ IsFull(out[i]) /\ IsFull(out[j])) => out[i].name # out[j].name

\* The name a line of a table refers to: `'key': <Name>Schema,`
ReferredName(line) ==
    LET colon == CHOOSE i \in 1..Len(line) :
                    CharAt(line, i) = ":" /\ \A j \in 1..(i - 1) : CharAt(line, j) # ":"
    IN SubSeq(line, colon + 2, Len(line) - Len("Schema,"))
TableReferences(lines) ==
    {ReferredName(lines[i]) : i \in {j \in 1..Len(lines) : startswith(lines[j], "            '")}}

\* The names declared or aliased before the last block of the output
NamesBeforeTables ==
    {out[j].name : j \in {k \in 1..(Len(out) - 1) : IsFull(out[k]) \/ out[k].k = "alias"}}

(* C29: every <Name>Schema the Request or the Response table refers to
   names a declaration or an alias <Name> emitted earlier in the output. *)
TableReferencesDeclared ==
    (cpc = "done" /\ Len(out) > 0 /\ out[Len(out)].k = "tables")
        => TableReferences(out[Len(out)].lines) \subseteq NamesBeforeTables

\* Tables that refer to a top-level component, whose route name was aliased
\* or not emitted again, and to a declaration of the route section
TableReferencesWitness ==
    /\ cpc = "done" /\ Len(out) > 0 /\ out[Len(out)].k = "tables"
    /\ TableReferences(out[Len(out)].lines) \cap DeclaredComponents # {}
    /\ TableReferences(out[Len(out)].lines) \ DeclaredComponents # {}
    /\ endswith(out[Len(out)].lines[2], "Schema,") \/ Len(out[Len(out)].lines) > 4
-----------------------------------------------------------------------------
(* to_python.py: convert_schema_to_pydantic_string, the synthesizer, and
   _emit_schema_definition, each called between registrations and clears of
   the process-wide registry *)

convert_schema_to_pydantic_string(schema, custom) == schema_to_type_expr(schema, custom)

\* The registrations made before a synthesis
SynthRegistrations ==
    { Registration("string", << <<"format", JStr("email")>> >>, "EmailAlias"),
      Registration("string", << <<"format", JStr("email")>> >>, ""),
      Registration("number", << >>, "Num") }

SStringOf(fmt) == JDict(<< <<"type", JStr("string")>>, <<"format", JStr(fmt)>> >>)
SEnumOf(type, values) == JDict(<< <<"type", JStr(type)>>, <<"enum", JList(values)>> >>)
SBoolean == JDict(<< <<"type", JStr("boolean")>> >>)

\* One schema for every branch of _schema_to_type_expr, without `nullable`
SynthBranches ==
    { Ref("User"),
      JDict(<< <<"$ref", JStr("other.yaml#/User")>> >>),
      JDict(<< <<"oneOf", JList(<<SString, SInteger>>)>> >>),
      JDict(<< <<"oneOf", JList(<<SInteger, JInt(5), SString>>)>> >>),
      JDict(<< <<"oneOf", JList(<<SStringOf("email")>>)>> >>),
      JDict(<< <<"anyOf", JList(<<SString, SInteger>>)>> >>),
      JDict(<< <<"anyOf", JList(<<SString>>)>> >>),
      JDict(<< <<"allOf", JList(<<Ref("A"), SUser>>)>> >>),
      SString, SStringOf("email"), SStringOf("date"),
      SInteger, SBoolean,
      JDict(<< <<"type", JStr("string")>>, <<"format", JStr("email")>>,
               <<"enum", JList(<<JStr("a@x.com")>>)>> >>),
      SEnumOf("number", <<JInt(1), JInt(2)>>),
      SEnumOf("boolean", <<JBool(TRUE)>>),
      JDict(<< <<"type", JStr("array")>>, <<"items", SStringOf("email")>> >>),
      SUser,
      JDict(<< <<"enum", JList(<<JStr("a"), JInt(1)>>)>> >>),
      JDict(<< >>) }

\* The values of `nullable` tried: the flag, and values that are not the flag
NullableValues == {JBool(TRUE), JInt(1)}

SynthSchemas ==
    SynthBranches
    \cup {Put(s, "nullable", v) : s \in SynthBranches, v \in NullableValues}
    \cup {JNull, JStr("string")}

InitSynth == IdleTopo /\ IdleDedup /\ IdleReg /\ IdleComp /\ IdleCall

\* convert_schema_to_pydantic_string(schema), with the registry as it is
Synthesize(schema) ==
    /\ IdleCall
    /\ ~type_expr_raises(schema)
    /\ called' = [function |-> "convert_schema_to_pydantic_string",
                  schema |-> schema, custom |-> Custom]
    /\ returned' = JStr(convert_schema_to_pydantic_string(schema, Custom))

SObjectWithEmail ==
    JDict(<< <<"type", JStr("object")>>,
             <<"properties", JDict(<< <<"email", SStringOf("email")>> >>)>>,
             <<"required", JList(<<JStr("email")>>)>> >>)
SPropertiesOnly ==
    JDict(<< <<"properties", JDict(<< <<"x", SInteger>>, <<"email", SString>>,
                                      <<"note", SString>> >>)>>,
             <<"required", JList(<<JStr("x"), JStr("email")>>)>> >>)
AllOf(members) == JDict(<< <<"allOf", JList(members)>> >>)

\* The allOf schemas declared: local references, inline objects, a foreign
\* reference, members that are neither, a member that is no mapping
DeclareSchemas ==
    { AllOf(<<Ref("A"), Ref("C")>>),
      AllOf(<<Ref("A"), SObjectWithEmail, SPropertiesOnly>>),
      AllOf(<<SPropertiesOnly, Ref("A")>>),
      AllOf(<<SObjectWithEmail>>),
      AllOf(<<JDict(<< <<"$ref", JStr("other.yaml#/X")>> >>), SObjectWithEmail>>),
      AllOf(<<Ref("A"), SString>>),
      AllOf(<<SString, SInteger>>),
      AllOf(<<SString>>),
      AllOf(<<Ref("A"), JInt(5)>>) }

\* A record schema with the properties, in order, and the required names
Record(props, required) ==
    JDict(<< <<"type", JStr("object")>>, <<"properties", JDict(props)>>,
             <<"required", JList([i \in 1..Len(required) |-> JStr(required[i])])>> >>)
SAddress == Record(<< <<"street", SString>> >>, <<"street">>)
SNullableAddress == Put(SAddress, "nullable", JBool(TRUE))

\* Records with inline objects as property values: required or not, with
\* nullable true and with a nullable that is not true, one inside the other,
\* with `properties` and no type, closed and without properties, freeform,
\* and inside a member of an allOf
NestingSchemas ==
    { Record(<< <<"id", SString>>, <<"owner", SAddress>> >>, <<"owner">>),
      Record(<< <<"owner", SNullableAddress>> >>, << >>),
      Record(<< <<"owner", Put(SAddress, "nullable", JInt(1))>> >>, <<"owner">>),
      Record(<< <<"owner", Put(Record(<< <<"home_address", SNullableAddress>>,
                                         <<"id", SString>> >>, <<"id">>),
                               "nullable", JBool(TRUE))>>,
                <<"home_address", SAddress>> >>, <<"owner">>),
      Record(<< <<"owner", JDict(<< <<"properties",
                                      JDict(<< <<"street", SString>> >>)>> >>)>> >>, << >>),
      Record(<< <<"owner", JDict(<< <<"type", JStr("object")>>,
                                    <<"additionalProperties", JBool(FALSE)>> >>)>> >>, << >>),
      Record(<< <<"meta", JDict(<< <<"type", JStr("object")>> >>)>>,
                <<"owner", Ref("A")>> >>, << >>),
      AllOf(<<Ref("A"), Record(<< <<"home_address", SAddress>> >>, << >>)>>) }

\* Wire names that are keywords, start with a digit or a capital, hold
\* characters no identifier has, are empty, sanitize to one identifier, or
\* equal a name made unique with a suffix
WireNames ==
    { <<"class", "1st", "Name", "name">>,
      <<"a-b", "a_b", "a_b_2">>,
      <<"a_b_2", "a-b", "a_b", "a.b">>,
      <<"x y", "None", "id">>,
      <<"_", "", "2">> }
Strings(names) == [i \in 1..Len(names) |-> <<names[i], SString>>]
NamingSchemas ==
    {Record(Strings(names), << >>) : names \in WireNames}
        \cup {Record(Strings(names), names) : names \in WireNames}

RecordSchemas == NestingSchemas \cup NamingSchemas

\* _emit_schema_definition(name, schema), with the registry as it is
Declare(name, schema) ==
    /\ IdleCall
    /\ ~emit_raises(schema)
    /\ called' = [function |-> "_emit_schema_definition", name |-> name,
                  schema |-> schema, custom |-> Custom]
    /\ returned' = JList(emit_schema_definition(name, schema, Custom))

\* Schemas with references: local, percent-encoded, foreign, with an empty
\* name, outside the prefix; under properties, items, the composition
\* keywords, additionalProperties, a discriminator mapping and `not`; twice;
\* and next to the keys of a reference node
ForeignRef == JDict(<< <<"$ref", JStr("other.json" \o RefPrefix \o "A")>> >>)
Under(key, value) == JDict(<< <<key, value>> >>)
ExtractSchemas ==
    { Ref("A"), Ref("%41"), Ref(""), ForeignRef,
      Under("$ref", JStr("#/definitions/A")),
      JNull, SString,
      Record(<< <<"a", Ref("A")>>, <<"b", Ref("B")>>, <<"c", Ref("A")>> >>, <<"a">>),
      Record(<< <<"a", ForeignRef>>, <<"b", Ref("B")>> >>, << >>),
      Under("items", Ref("C")),
      Under("items", Under("properties", Under("x", Ref("D")))),
      Under("oneOf", JList(<<Ref("A"), SString, Ref("B")>>)),
      Under("anyOf", JList(<<Ref("A"), Under("items", Ref("E"))>>)),
      AllOf(<<Ref("A"), Record(<< <<"b", Ref("B")>> >>, << >>)>>),
      Under("additionalProperties", Ref("Z")),
      Under("additionalProperties", JBool(TRUE)),
      Under("discriminator", Under("mapping", Under("cat", Ref("C")))),
      Under("discriminator", Under("mapping", Under("cat", JStr(RefPrefix \o "C")))),
      Put(Ref("A"), "properties", Under("x", Ref("B"))),
      Under("not", Ref("A")),
      Under("example", Ref("A")) }

\* extract_schema_dependencies(schema); the list it returns holds the
\* members of a set, in no order
Extract(schema) ==
    /\ IdleCall
    /\ called' = [function |-> "extract_schema_dependencies", schema |-> schema]
    /\ returned' = [t |-> "set", items |-> extract_schema_dependencies(schema)]

\* The caller is done with the result of the call
EndCall ==
    /\ ~IdleCall
    /\ called' = [function |-> "none"]
    /\ returned' = JNull

NextSynth ==
    \/ \E r \in SynthRegistrations :
          IdleCall /\ Register("schema1", r)
              /\ UNCHANGED <<topoVars, dedupVars, compVars, callVars>>
    \/ IdleCall /\ Clear /\ UNCHANGED <<topoVars, dedupVars, compVars, callVars>>
    \/ EndCall /\ UNCHANGED <<topoVars, dedupVars, compVars, regVars>>
    \/ \E s \in ExtractSchemas :
          Extract(s) /\ UNCHANGED <<topoVars, dedupVars, compVars, regVars>>
    \/ \E s \in SynthSchemas :
          Synthesize(s) /\ UNCHANGED <<topoVars, dedupVars, compVars, regVars>>
    \/ \E s \in DeclareSchemas \cup RecordSchemas :
          Declare("B", s) /\ UNCHANGED <<topoVars, dedupVars, compVars, regVars>>

SpecSynth == InitSynth /\ [][NextSynth]_vars

\* The last call was a synthesis of this schema
Synthesized(schema) ==
    /\ called.function = "convert_schema_to_pydantic_string"
    /\ called.schema = schema

\* The string formats registered when the last call was made
RegisteredFormats == DOMAIN called.custom.formats

\* The default decorated string type of the formats tried
DefaultString(fmt) ==
    IF fmt = "email"
    THEN "Annotated[EmailStr, Field(json_schema_extra={'openapi': {'format': 'email'}})]"
    ELSE "Annotated[str, Field(strict=True, json_schema_extra={'openapi': {'format': '"
         \o fmt \o "'}})]"

SynthFormats == {"email", "date"}

(* C12: a synthesis of {type: string, format: f} made while f is registered
   under an alias returns exactly that alias; made on a cleared registry it
   returns the default decorated string type; and after a clear every alias
   lookup returns nothing. *)
FormatRoundTrip ==
    /\ \A f \in SynthFormats :
          Synthesized(SStringOf(f)) =>
              /\ f \in RegisteredFormats => returned = JStr(called.custom.formats[f])
              /\ called.custom = [formats |-> << >>, primitives |-> << >>]
                    => returned = JStr(DefaultString(f))
    /\ reg_outcome.call = "clear" =>
          /\ \A i \in 1..Len(SUPPORTED_STRING_FORMATS) :
                get_schema_exported_variable_name_for_string_format(
                    string_format_to_name, SUPPORTED_STRING_FORMATS[i]) = << >>
          /\ \A t \in PRIMITIVE_TYPES :
                get_schema_exported_variable_name_for_primitive_type(
                    primitive_type_to_name, t) = << >>

BaseTypes == {"string", "number", "integer", "boolean"}

\* A schema of a base type that carries an enum list and nothing that comes
\* before the type in the precedence of _schema_to_type_expr
IsEnumOfBaseType(schema) ==
    /\ IsDict(schema)
    /\ IsStr(Get(schema, "type")) /\ Get(schema, "type").s \in BaseTypes
    /\ IsList(Get(schema, "enum"))
    /\ ~HasKey(schema, "$ref") /\ ~HasKey(schema, "oneOf") /\ ~HasKey(schema, "allOf")
    /\ ~HasKey(schema, "nullable")

(* C13: a synthesis of a schema of a base type (string, number, integer,
   boolean) that carries an enum list returns the literal-value type over
   the listed values, whatever aliases are registered. *)
EnumPrecedence ==
    (called.function = "convert_schema_to_pydantic_string" /\ IsEnumOfBaseType(called.schema))
        => returned = JStr(LiteralOf(Get(called.schema, "enum")))

\* The mapping without one of its keys
Without(schema, key) == JDict(SelectSeq(schema.kv, LAMBDA p : p[1] # key))

\* What a synthesis returns for the schema given what it returns for the
\* schema without the flag
Wrapped(schema, bare) ==
    IF IsTrue(Get(schema, "nullable")) THEN "Optional[" \o bare \o "]" ELSE bare

SNullableUser == Put(Ref("User"), "nullable", JBool(TRUE))

(* C14: a synthesis of a mapping schema with `nullable: true` returns
   Optional[...] around what the synthesis of the same schema without the
   flag returns, in every branch; a schema whose `nullable` is absent or not
   true gets no wrapper; a nullable local reference to User gives
   Optional[User]. *)
NullableWrapsOnce ==
    /\ (called.function = "convert_schema_to_pydantic_string" /\ IsDict(called.schema))
          => returned = JStr(Wrapped(called.schema,
                 convert_schema_to_pydantic_string(Without(called.schema, "nullable"),
                                                   called.custom)))
    /\ Synthesized(SNullableUser) => returned = JStr("Optional[User]")

\* A nullable reference to User was synthesized and came out wrapped once
NullableWitness == Synthesized(SNullableUser) /\ returned = JStr("Optional[User]")

\* The members of a union schema: the mappings of its `oneOf`, or of its
\* `anyOf` when it has no `oneOf`
UnionMembers(schema) ==
    IF IsList(Get(schema, "oneOf")) THEN DictItems(Get(schema, "oneOf"))
    ELSE DictItems(Get(schema, "anyOf"))

IsUnionSchema(schema) ==
    /\ IsDict(schema)
    /\ IsList(Get(schema, "oneOf")) \/ IsList(Get(schema, "anyOf"))
    /\ ~HasKey(schema, "$ref") /\ ~HasKey(schema, "nullable")
    /\ ~HasKey(schema, "discriminator")
    /\ Len(UnionMembers(schema)) > 0

\* The union of the expressions, a single expression as it is
UnionOf(exprs) ==
    IF Len(exprs) = 1 THEN exprs[1] ELSE "Union[" \o Join(exprs, ", ") \o "]"

MemberExprs(members, custom) ==
    [i \in 1..Len(members) |-> convert_schema_to_pydantic_string(members[i], custom)]

(* C15: a synthesis of a schema that carries `oneOf` or `anyOf` returns the
   union of the expressions of its members, in member order, and the
   expression of the member itself when there is exactly one. *)
UnionOfMembers ==
    (called.function = "convert_schema_to_pydantic_string" /\ IsUnionSchema(called.schema))
        => returned = JStr(UnionOf(MemberExprs(UnionMembers(called.schema), called.custom)))

\* The members of an allOf that are local references, and those that are
\* inline objects
IsLocalRef(member) ==
    IsDict(member) /\ IsStr(Get(member, "$ref")) /\ startswith(Get(member, "$ref").s, RefPrefix)
IsInlineObject(member) ==
    /\ IsDict(member) /\ ~HasKey(member, "$ref")
    /\ StrIs(Get(member, "type"), "object") \/ HasKey(member, "properties")

\* The names of the local references of the members, in member order
LocalNames(members) ==
    LET refs == SelectSeq(members, IsLocalRef)
    IN [i \in 1..Len(refs) |->
          SubSeq(Get(refs[i], "$ref").s, Len(RefPrefix) + 1, Len(Get(refs[i], "$ref").s))]

\* The property names, and the required names, of the inline members
PropertyNames(members) ==
    UNION {KeySet(Get(members[i], "properties")) :
              i \in {j \in 1..Len(members) : IsInlineObject(members[j])}}
RequiredNames(members) ==
    UNION {{Get(members[i], "required").items[k].s :
                k \in 1..Len(Get(members[i], "required").items)} :
              i \in {j \in 1..Len(members) : IsInlineObject(members[j])}}

\* The field lines of a class: `    name: type`, with ` = None` at the end
\* when the field is not required
FieldLinesOf(lines) ==
    SelectSeq(lines, LAMBDA l : startswith(l, "    ") /\ ~startswith(l, "    __")
                                /\ l # "    pass")
FieldName(line) == Split(SubSeq(line, 5, Len(line)), LAMBDA c : c = ":")[1]

\* One record with the bases and the fields
IsMergedRecord(lines, name, bases, fields, required) ==
    /\ lines[1] = "class " \o name \o "("
                  \o (IF Len(bases) = 0 THEN "BaseModel" ELSE Join(bases, ", ")) \o "):"
    /\ {FieldName(l) : l \in SeqToSet(FieldLinesOf(lines))} = fields
    /\ Len(FieldLinesOf(lines)) = Cardinality(fields)
    /\ \A l \in SeqToSet(FieldLinesOf(lines)) :
          endswith(l, " = None") <=> FieldName(l) \notin required

\* The combinator over the expressions of the members, and no record
IsCombinator(lines, name, exprs) ==
    /\ lines[1] = name \o ": TypeAlias = all_of(" \o Join(exprs, ", ") \o ")"
    /\ \A i \in 1..Len(lines) : ~startswith(lines[i], "class ")

Declared(blocks, name, members, custom) ==
    IF \A i \in 1..Len(members) : IsLocalRef(members[i]) \/ IsInlineObject(members[i])
    THEN /\ Len(blocks) = 1
         /\ IsMergedRecord(blocks[1].lines, name, LocalNames(members),
                           PropertyNames(members), RequiredNames(members))
    ELSE /\ Len(blocks) = 1
         /\ IsCombinator(blocks[1].lines, name, MemberExprs(members, custom))

(* C20: the declaration of a named schema with allOf is one record whose
   bases are the names of the local references, in member order, and whose
   fields and required names are the merge of those of the inline objects,
   when every member is a local reference or an inline object; when a member
   is neither, it is the all_of(...) combinator over the expressions of the
   members, and no record. *)
AllOfDeclaration ==
    called.function = "_emit_schema_definition" /\ HasKey(called.schema, "allOf") =>
        Declared(SelectSeq(returned.items, LAMBDA b : b.k = "def"), called.name,
                 Get(called.schema, "allOf").items,
                 called.custom)

\* The property names of the nesting records in Pascal case
PascalNames == [p \in {"owner", "home_address"} |->
                   IF p = "owner" THEN "Owner" ELSE "HomeAddress"]

\* An inline object that is not freeform: a mapping that is no reference and
\* no composition, of type object or with properties, and with a property or
\* closed to additional ones
IsInlineRecord(v) ==
    /\ IsDict(v)
    /\ KeySet(v) \cap {"$ref", "oneOf", "anyOf", "allOf"} = {}
    /\ StrIs(Get(v, "type"), "object") \/ HasKey(v, "properties")
    /\ Truthy(Get(v, "properties")) \/ IsFalse(Get(v, "additionalProperties"))

\* The lines of the declaration with the name
LinesOf(blocks, name) ==
    (CHOOSE b \in SeqToSet(blocks) : b.name = name).lines

\* The class has a field of the name with exactly the type
FieldTypeIs(lines, attr, type) ==
    \E i \in 1..Len(lines) :
        lines[i] \in {"    " \o attr \o ": " \o type, "    " \o attr \o ": " \o type \o " = None"}

\* Every inline record among the properties of the record is declared as a
\* class of its own before the record, the property refers to the class,
\* and the same holds of the properties of the inline record
RECURSIVE LiftedFrom(_, _, _)
LiftedFrom(blocks, name, record) ==
    IF ~IsDict(Get(record, "properties")) THEN TRUE
    ELSE \A p \in KeySet(Get(record, "properties")) :
            LET v == Get(Get(record, "properties"), p)
            IN IsInlineRecord(v) =>
                 /\ \E i, j \in 1..Len(blocks) :
                        /\ i < j
                        /\ blocks[j].name = name
                        /\ blocks[i].name = name \o PascalNames[p]
                        /\ blocks[i].lines[1] = "class " \o name \o PascalNames[p] \o "(BaseModel):"
                 /\ FieldTypeIs(LinesOf(blocks, name), p,
                                IF IsTrue(Get(v, "nullable"))
                                THEN "Optional[" \o name \o PascalNames[p] \o "]"
                                ELSE name \o PascalNames[p])
                 /\ LiftedFrom(blocks, name \o PascalNames[p], v)

\* The record a schema declares: the merge of the members of an allOf
RecordOf(schema) == IF HasKey(schema, "allOf") THEN merged_schema(schema) ELSE schema

(* C21: every inline object, not freeform, that is the value of a property
   of a declared record is declared as a class named <record><Property>
   before the record, the type of the property is that name, Optional[...]
   exactly when the inline object has nullable true, and the same holds of
   the properties of the lifted object. *)
NestedObjectsLifted ==
    called.function = "_emit_schema_definition" /\ called.schema \in NestingSchemas =>
        LiftedFrom(returned.items, called.name, RecordOf(called.schema))

\* A record declared with an object inside an object, both nullable
NestedObjectsWitness ==
    /\ called.function = "_emit_schema_definition"
    /\ Len(returned.items) = 4
    /\ \E i \in 1..4 : returned.items[i].name = "BOwnerHomeAddress"
    /\ IsTrue(Get(Get(Get(called.schema, "properties"), "owner"), "nullable"))

\* The lines of the fields of a class, in order
FieldsOf(lines) ==
    SelectSeq(lines, LAMBDA l : /\ startswith(l, "    ")
                                /\ ~startswith(l, "    model_config = ")
                                /\ ~startswith(l, "    __openapi_allof__ = ")
                                /\ l # "    pass")

\* A Python identifier that is no keyword
IdentifierChars == "_abcdefghijklmnopqrstuvwxyzABCDEFGHIJKLMNOPQRSTUVWXYZ0123456789"
IsIdentifier(s) ==
    /\ s # ""
    /\ \A i \in 1..Len(s) : HasChar(IdentifierChars, CharAt(s, i))
    /\ ~HasChar("0123456789", CharAt(s, 1))
    /\ s \notin PythonKeywords

\* The attribute name of a field line: what stands before the first colon
AttrOf(line) ==
    LET colon == CHOOSE i \in 1..Len(line) :
                    CharAt(line, i) = ":" /\ \A j \in 1..(i - 1) : CharAt(line, j) # ":"
    IN SubSeq(line, 5, colon - 1)

\* The fields are named by distinct identifiers, and a field named otherwise
\* than its property carries the name of the property as its alias
FieldsNamed(lines, properties) ==
    /\ Len(lines) = Len(properties)
    /\ \A i \in 1..Len(lines) :
          /\ IsIdentifier(AttrOf(lines[i]))
          /\ \A j \in 1..Len(lines) : i # j => AttrOf(lines[i]) # AttrOf(lines[j])
          /\ AttrOf(lines[i]) # properties[i][1]
                => endswith(lines[i], "alias='" \o properties[i][1] \o "')")

(* C25: in every declared record the attribute name of each field is a
   Python identifier and no keyword, the attribute names of the record are
   pairwise distinct, and a field whose attribute name differs from its wire
   name carries an alias equal to the wire name. *)
FieldsAreIdentifiers ==
    called.function = "_emit_schema_definition" /\ called.schema \in NamingSchemas =>
        FieldsNamed(FieldsOf(LinesOf(returned.items, called.name)),
                    Get(called.schema, "properties").kv)

\* The values of a mapping; none for any other value
ValuesOf(v) == IF IsDict(v) THEN {v.kv[i][2] : i \in 1..Len(v.kv)} ELSE {}

\* The reference strings of the `$ref` nodes reached from a value through
\* the values of properties, items, oneOf, anyOf, allOf, an
\* additionalProperties that is a mapping, and the values of a discriminator
\* mapping; a `$ref` node is not descended into
RECURSIVE ReachedRefs(_)
ReachedRefs(v) ==
    IF IsList(v) THEN UNION {ReachedRefs(v.items[i]) : i \in 1..Len(v.items)}
    ELSE IF ~IsDict(v) THEN {}
    ELSE IF IsStr(Get(v, "$ref")) THEN {Get(v, "$ref").s}
    ELSE UNION {ReachedRefs(x) :
                  x \in {Get(v, k) : k \in KeySet(v) \cap {"items", "oneOf", "anyOf", "allOf"}}
                        \cup ValuesOf(Get(v, "properties"))
                        \cup {a \in {Get(v, "additionalProperties")} : IsDict(a)}
                        \cup UNION {ValuesOf(Get(d, "mapping")) : d \in {x \in {Get(v, "discriminator")} : IsDict(x)}}}

\* The name a reference string targets in the local namespace: the string
\* is the prefix followed by the name, percent-encoded
LocalTargets(refs) ==
    {unquote(SubSeq(r, Len(RefPrefix) + 1, Len(r))) :
        r \in {x \in refs : startswith(x, RefPrefix) /\ Len(x) > Len(RefPrefix)}}

(* C23: extract_schema_dependencies returns exactly the names targeted, in
   the local namespace #/components/schemas/, by the `$ref` nodes reached
   from the schema through properties, items, the composition keywords, a
   mapping-valued additionalProperties and the values of a discriminator
   mapping; a reference that does not resolve locally gives no name. *)
DependenciesAreLocalRefs ==
    called.function = "extract_schema_dependencies" =>
        returned.items = LocalTargets(ReachedRefs(called.schema))
-----------------------------------------------------------------------------
(* routes.py and to_python.py: the routes of a document and their names,
   each function called on its own *)

RoutePaths == {"/users/{id}", "/users", "/user-items/{item_id}", "/v1.0/users", "/"}

\* The methods parse_openapi_paths gives its routes
RouteMethods == {to_upper_method(HttpMethods[i]) : i \in 1..Len(HttpMethods)}

RoleSuffixes == {"Params", "Query", "Headers", "Body"}

StatusCodes == {"200", "201", "404", "500"}

SOperation == JDict(<< <<"responses", JDict(<< <<"200", JsonBody(SUser)>> >>)>> >>)
SOtherOperation == JDict(<< <<"responses", JDict(<< <<"404", JsonBody(SString)>> >>)>> >>)

\* Path items: the seven verbs, a verb that is none of them, a verb in upper
\* case, keys that are no operations, an operation that is no mapping
PathItems ==
    { JDict(<< <<"get", SOperation>> >>),
      JDict(<< <<"trace", SOperation>> >>),
      JDict(<< <<"trace", SOtherOperation>>, <<"get", SOperation>> >>),
      JDict(<< <<"GET", SOperation>> >>),
      JDict(<< <<"summary", JStr("x")>>, <<"delete", SOperation>>,
               <<"parameters", JList(<<Parameter("id", "path", TRUE)>>)>>,
               <<"post", SOtherOperation>> >>),
      JDict(<< <<"options", SOperation>>, <<"patch", SOperation>>,
               <<"head", SOperation>>, <<"put", SOperation>> >>),
      JDict(<< <<"get", JStr("x")>> >>),
      JStr("x") }

ParseInputs ==
    {JDict(<< >>), JDict(<< <<"paths", JStr("x")>> >>)}
    \cup {JDict(<< <<"paths", JDict(<< <<"/a", i>> >>)>> >>) : i \in PathItems}
    \cup {JDict(<< <<"paths", JDict(<< <<"/b", i>>, <<"/a", j>> >>)>> >>) :
             i \in PathItems, j \in PathItems}

InitRoutes == IdleTopo /\ IdleDedup /\ IdleReg /\ IdleComp /\ IdleCall

\* parse_openapi_paths(openapi)
Parse(openapi) ==
    /\ called' = [function |-> "parse_openapi_paths", openapi |-> openapi]
    /\ returned' = JList(parse_openapi_paths(openapi))

\* routes._generate_route_schema_name(path, method, suffix), as
\* generate_route_schema_names calls it
NameRole(path, method, suffix) ==
    /\ called' = [function |-> "routes._generate_route_schema_name",
                  path |-> path, method |-> method, suffix |-> suffix]
    /\ returned' = JStr(routes_generate_route_schema_name(path, method, suffix))

\* The name _collect_route_schemas and _generate_route_schemas give the
\* response of a route: _generate_route_schema_name(path, method,
\* f"{status_code}{suffix}")
NameResponse(path, method, status_code) ==
    /\ called' = [function |-> "_generate_route_schema_name",
                  path |-> path, method |-> method, status_code |-> status_code]
    /\ returned' = JStr(ResponseSchemaName([path |-> path, method |-> method], status_code))

NextRoutes ==
    \/ \E o \in ParseInputs :
          Parse(o) /\ UNCHANGED <<topoVars, dedupVars, compVars, regVars>>
    \/ \E p \in RoutePaths, m \in RouteMethods, s \in RoleSuffixes :
          NameRole(p, m, s) /\ UNCHANGED <<topoVars, dedupVars, compVars, regVars>>
    \/ \E p \in RoutePaths, m \in RouteMethods, c \in StatusCodes :
          NameResponse(p, m, c) /\ UNCHANGED <<topoVars, dedupVars, compVars, regVars>>

SpecRoutes == InitRoutes /\ [][NextRoutes]_vars

\* The method name with its first letter in upper case and the rest in lower
\* case
MethodNames ==
    [m \in RouteMethods |->
        CASE m = "GET" -> "Get" [] m = "POST" -> "Post" [] m = "PUT" -> "Put"
          [] m = "PATCH" -> "Patch" [] m = "DELETE" -> "Delete"
          [] m = "HEAD" -> "Head" [] m = "OPTIONS" -> "Options"]

\* The segments of the path in Pascal case, the braces stripped
PascalPaths ==
    [p \in RoutePaths |->
        CASE p = "/users/{id}" -> "UsersId"
          [] p = "/users" -> "Users"
          [] p = "/user-items/{item_id}" -> "UserItemsItemId"
          [] p = "/v1.0/users" -> "V10Users"
          [] p = "/" -> ""]

StatusSuffix(status_code) ==
    status_code \o (IF CharAt(status_code, 1) = "2" THEN "Response" ELSE "ErrorResponse")

(* C16: the name of a role of a route is the method name, first letter in
   upper case and the rest in lower case, then the non-empty segments of the
   path in Pascal case without the braces of path parameters, then the role;
   the name of a response is the same with the status code and Response (for
   2xx) or ErrorResponse as the role. *)
RouteNaming ==
    /\ called.function = "routes._generate_route_schema_name" =>
          returned = JStr(MethodNames[called.method] \o PascalPaths[called.path]
                          \o called.suffix)
    /\ called.function = "_generate_route_schema_name" =>
          returned = JStr(MethodNames[called.method] \o PascalPaths[called.path]
                          \o StatusSuffix(called.status_code))

SevenVerbs == {"get", "post", "put", "patch", "delete", "head", "options"}

\* The path items of a document that are mappings, as <<path, item>> pairs
ItemsOf(openapi) ==
    IF ~IsDict(Get(openapi, "paths")) THEN << >>
    ELSE SelectSeq(Get(openapi, "paths").kv, LAMBDA p : IsDict(p[2]))

\* The keys of a path item under which an operation (a mapping) is listed
OperationKeys(item) == {k \in KeySet(item) : IsDict(Get(item, k))}

\* The indexes of the returned routes of a path with a method
RoutesOf(path, method) ==
    {i \in 1..Len(returned.items) :
        returned.items[i].path = path /\ returned.items[i].method = method}

\* Every returned route stands for an operation listed under one of the
\* verbs, and every such operation has exactly one route, with the verb in
\* upper case as its method
OneRoutePerVerb(items) ==
    /\ \A i \in 1..Len(returned.items) :
          \E j \in 1..Len(items) :
             /\ items[j][1] = returned.items[i].path
             /\ \E v \in SevenVerbs \cap OperationKeys(items[j][2]) :
                   /\ returned.items[i].method = upper(v)
                   /\ returned.items[i].responses
                         = ResponsesOf(Get(Get(items[j][2], v), "responses"))
    /\ \A j \in 1..Len(items) :
          \A v \in SevenVerbs :
             Cardinality(RoutesOf(items[j][1], upper(v)))
                = IF v \in OperationKeys(items[j][2]) THEN 1 ELSE 0

\* An operation under another key is a GET route of its path
OthersAreGet(items) ==
    \A j \in 1..Len(items) :
       Cardinality(RoutesOf(items[j][1], "GET"))
          = Cardinality(OperationKeys(items[j][2]) \ (SevenVerbs \ {"get"}))

(* C17, as stated: parse_openapi_paths recognizes the seven verbs, and an
   operation listed under any other verb becomes a GET route. *)
UnrecognizedVerbIsGet ==
    called.function = "parse_openapi_paths" =>
        /\ \A i \in 1..Len(returned.items) :
              returned.items[i].method \in {upper(v) : v \in SevenVerbs}
        /\ OthersAreGet(ItemsOf(called.openapi))

(* C17, amended: parse_openapi_paths returns one route for every operation
   listed under one of the seven verbs get, post, put, patch, delete, head,
   options (in lower case), with the verb in upper case as its method, and no
   route for an operation listed under any other key. *)
OnlySevenVerbs ==
    called.function = "parse_openapi_paths" => OneRoutePerVerb(ItemsOf(called.openapi))

\* A document with a trace and a get operation on one path was parsed into
\* the one GET route of its get operation
OnlySevenVerbsWitness ==
    /\ called.function = "parse_openapi_paths"
    /\ \E j \in 1..Len(ItemsOf(called.openapi)) :
          {"trace", "get"} \subseteq OperationKeys(ItemsOf(called.openapi)[j][2])
    /\ Len(returned.items) = 1
    /\ returned.items[1].method = "GET"
    /\ returned.items[1].responses = ResponsesOf(Get(SOperation, "responses"))

\* The name the other derivation gives for the arguments of the last call
OtherDerivation ==
    IF called.function = "routes._generate_route_schema_name"
    THEN generate_route_schema_name(called.path, called.method, called.suffix)
    ELSE routes_generate_route_schema_name(called.path, called.method,
                                           StatusSuffix(called.status_code))

(* C30: the derivation of routes.py and the derivation of to_python.py give
   the same name for every path, method and suffix. *)
DerivationsAgree ==
    called.function \in {"routes._generate_route_schema_name", "_generate_route_schema_name"}
        => returned = JStr(OtherDerivation)

-----------------------------------------------------------------------------
(* The registry after a registration that raises *)

\* The three tables of the registry
RegistryTables == <<string_format_to_name, primitive_type_to_name, schema_ids>>

(* C27: a registration call that raises leaves the format table, the
   primitive table and the set of registered schemas as they were before
   the call. *)
RaiseLeavesRegistry ==
    [][reg_outcome'.call = "register" /\ reg_outcome'.raised # "ok"
          => UNCHANGED RegistryTables]_vars

-----------------------------------------------------------------------------
(* The order of the list topological_sort_schemas returns *)

\* The names without a dependency in the map, in declaration order
Sources == SelectSeq(Keys(schemas), LAMBDA name : valid_deps(schemas, name) = {})

\* The names Kahn's loop cannot emit: those on a cycle, and those from which
\* a name on a cycle is reached
Stuck ==
    {name \in KeySet(schemas) :
        \E m \in ReachFrom({name}, {}) \cup {name} : Reaches(m, m)}

\* The list starts with the names of `first`; it ends with the names of the
\* set `last`, in declaration order
StartsWith(list, first) == SubSeq(list, 1, Len(first)) = first
EndsWith(list, last) ==
    SubSeq(list, Len(list) - Cardinality(last) + 1, Len(list))
        = SelectSeq(Keys(schemas), LAMBDA name : name \in last)

(* C24: the returned list starts with the names that have no local
   dependency, in declaration order, and ends with the names Kahn's loop
   did not emit, in declaration order, after every emitted name. *)
SourcesFirstStuckLast ==
    tpc = "done" => StartsWith(sorted_names, Sources) /\ EndsWith(sorted_names, Stuck)

\* A returned list of three names, the second and third of them stuck
SourcesFirstWitness ==
    /\ tpc = "done"
    /\ Len(sorted_names) = 3
    /\ Len(Sources) = 1
    /\ Cardinality(Stuck) = 2

(* C26: the list returned for a map is the same whatever the order in which
   the dependencies of each schema are listed: it is the list computed from
   the dependency sets alone. *)
EnumerationIrrelevant ==
    /\ tpc \in {"loop", "done"} => dependents = BuildDependents(schemas)
    /\ tpc = "done" => sorted_names = topological_sort_schemas(schemas)

\* A returned list for a map in which a schema has two dependencies, listed
\* in the order opposite to that of the declarations
EnumerationWitness ==
    /\ tpc = "done"
    /\ \E name, a, b \in KeySet(schemas) :
          /\ {a, b} \subseteq valid_deps(schemas, name)
          /\ IndexOf(Keys(schemas), a) < IndexOf(Keys(schemas), b)
          /\ IndexOf(enumeration, b) < IndexOf(enumeration, a)

====
